---- MODULE Spec2Model ----
(***************************************************************************)
(* The sdstore job server: priority queue of client tasks, admission by    *)
(* running filter counts against configured limits, one worker thread per  *)
(* admitted task, and the messages sent back to each client.               *)
(*                                                                         *)
(* Two coordinators live in the repository and both are modelled over the  *)
(* same state:                                                             *)
(*   Spec     the ServerState methods of core/server/state.rs              *)
(*   SpecBin  the event loop of bin/sdstored.rs (accept_task,              *)
(*            process_task_result, task_steal)                             *)
(* SpecTies is Spec with requests of one priority from several clients.    *)
(* SpecStray is Spec with completion events of workers the table no longer *)
(* knows.  SpecAdmission and SpecMessages apply the pure functions         *)
(* can_run_pipeline and mon_res_to_cl_msg to drawn arguments.              *)
(* SpecConfig is the start of the server on a limits file, and SpecClient  *)
(* is one client process of bin/sdstore.rs.                                *)
(* SpecInterleaved is Spec with process_task in two steps, so that a worker *)
(* can run between its spawn and the insertion of its record.              *)
(* SpecFilters displays filters, joins the names to the directory of the    *)
(* filter programs as a worker does, and parses the names back.            *)
(***************************************************************************)
EXTENDS Integers, Sequences, FiniteSets, TLC

VARIABLES
    limits,         \* ServerConfig.filters_config, fixed at start-up
    pc,             \* where the coordinator thread is: "start", "recv", "drain",
                    \* "steal", "insert", "panicked", "exited"
    task_counter,   \* ServerState.task_counter
    task_pqueue,    \* ServerState.task_pqueue, in pop order
    filters_count,  \* ServerState.filters_count
    running_tasks,  \* ServerState.running_tasks: ThreadId -> Monitor
    chan,           \* the mpsc channel into the coordinator
    threads,        \* worker threads ever spawned, indexed by ThreadId
    sent,           \* per client pid, the datagrams delivered to its socket
    send_failed,    \* client pids to which some send has failed
    requests,       \* history: the tasks the listener has forwarded, in order
    popped,         \* history: tasks taken off the queue, in order
    epochs,         \* history: per popped task, the completions handled before it
    status_asked,   \* history: the pids whose Status requests the listener forwarded
    status_log,     \* per client pid, the status texts delivered to its socket
    nfaults,        \* sends and thread spawns that have failed so far
    destination,    \* bin/sdstored.rs: the socket's current destination pid
    spins,          \* bin/sdstored.rs: task_steal iterations that changed nothing
    client,         \* bin/sdstore.rs: one client process
    call,           \* the arguments of the pure function under check
    ret             \* what the function returned for them

vars == <<limits, pc, task_counter, task_pqueue, filters_count, running_tasks,
          chan, threads, sent, send_failed, requests, popped, nfaults, destination, spins, call, ret,
          epochs, status_asked, status_log, client>>

----------------------------------------------------------------------------
(* Bounds of the model *)

MaxRequests == 3
MaxClients == 2
MaxSpin == 2
MaxFaults == 1
MaxCount == 2
MaxBytes == 6

----------------------------------------------------------------------------
(* Filters and filter counts *)

\* The seven filters, in the declaration order of the FiltersConfig fields.
FilterOrder ==
    <<"nop", "bcompress", "bdecompress", "gcompress", "gdecompress", "encrypt", "decrypt">>

Filters == {FilterOrder[i] : i \in 1..Len(FilterOrder)}

\* FiltersConfig::default / RunningFilters::default: every count 0.
DefaultCounts == [f \in Filters |-> 0]

\* FiltersConfig::parse of a limits file that names only nop and encrypt: the
\* filters it does not name keep the default 0.
ParsedConfig(nop, encrypt) ==
    [DefaultCounts EXCEPT !["nop"] = nop, !["encrypt"] = encrypt]

\* The limits files the server is started with: "encrypt 1", and
\* "nop 2 / encrypt 1".
Configs == {ParsedConfig(0, 1), ParsedConfig(2, 1)}

\* RunningFilters::increment_filter
increment_filter(counts, f) == [counts EXCEPT ![f] = @ + 1]

\* A faulty decrement_filter: the count goes down by two.
decrement_filter_twice(counts, f) == [counts EXCEPT ![f] = @ - 2]

\* RunningFilters::decrement_filter
decrement_filter(counts, f) == [counts EXCEPT ![f] = @ - 1]

\* impl Add / AddAssign: one increment per filter of the request, in order.
RECURSIVE add_assign(_, _)
add_assign(counts, req) ==
    IF req = <<>> THEN counts
    ELSE add_assign(increment_filter(counts, Head(req)), Tail(req))

\* impl SubAssign: one decrement per filter of the request, in order.
RECURSIVE sub_assign(_, _)
sub_assign(counts, req) ==
    IF req = <<>> THEN counts
    ELSE sub_assign(decrement_filter(counts, Head(req)), Tail(req))

\* A faulty FiltersConfigLe: componentwise dominance instead of the derived order.
FiltersConfigLeComponentwise(a, b) == \A f \in Filters : a[f] <= b[f]

\* `<=` of the derived PartialOrd: lexicographic over the fields in
\* declaration order.
FiltersConfigLe(a, b) ==
    \/ a = b
    \/ \E i \in 1..Len(FilterOrder) :
          /\ a[FilterOrder[i]] < b[FilterOrder[i]]
          /\ \A j \in 1..(i - 1) : a[FilterOrder[j]] = b[FilterOrder[j]]

\* RunningFilters::can_run_pipeline
can_run_pipeline(running, server_cfg, client_req) ==
    FiltersConfigLe(add_assign(running, client_req), server_cfg)

\* Occurrences of filter f in a filter sequence.
Occurrences(req, f) == Cardinality({i \in 1..Len(req) : req[i] = f})

----------------------------------------------------------------------------
(* Tasks the listener can decode from the wire *)

Pids == 1..MaxClients

\* Client 1 asks for priority 5, every other client for priority 1.
PriorityOf(pid) == IF pid = 1 THEN 5 ELSE 1

FilterLists == {<<"encrypt">>, <<"encrypt", "encrypt">>, <<>>}

\* ClientTask: the five fields of the struct.
ClientTask(pid, prio, filters) ==
    [client_pid |-> pid, priority |-> prio, input |-> "in", output |-> "out",
     transformations |-> filters]

TaskPool == {ClientTask(p, PriorityOf(p), fl) : p \in Pids, fl \in FilterLists}

----------------------------------------------------------------------------
(* The priority queue: PriorityQueue<ClientTask, usize> *)

Range(s) == {s[i] : i \in 1..Len(s)}

InsertAt(s, i, x) == SubSeq(s, 1, i - 1) \o <<x>> \o SubSeq(s, i, Len(s))

\* A faulty push: the item goes to the back whatever its priority.
PQPushBack(q, t) == IF t \in Range(q) THEN {q} ELSE {Append(q, t)}

\* PriorityQueue::push(task, task.priority). An item equal to one already
\* queued only has its priority rewritten (to the same value). The order of
\* items of equal priority is the heap's own, so every position inside the
\* priority class is possible.
PQPush(q, t) ==
    IF t \in Range(q) THEN {q}
    ELSE {InsertAt(q, i, t) : i \in
            {k \in 1..(Len(q) + 1) :
                /\ \A j \in 1..(k - 1) : q[j].priority >= t.priority
                /\ \A j \in k..Len(q) : q[j].priority <= t.priority}}

\* A faulty PQPeek: the item of lowest priority.
PQPeekLast(q) == q[Len(q)]

\* PriorityQueue::peek on a non-empty queue: the item of highest priority.
PQPeek(q) == q[1]

\* A faulty PQPop: the peeked item stays in the queue.
PQPopKeeping(q) == q

\* PriorityQueue::pop on a non-empty queue: the queue without the peeked item.
PQPop(q) ==
    LET t == PQPeek(q)
        i == CHOOSE k \in 1..Len(q) : q[k] = t
    IN  SubSeq(q, 1, i - 1) \o SubSeq(q, i + 1, Len(q))

----------------------------------------------------------------------------
(* Messages *)

Msg(tag) == [tag |-> tag, bytes |-> <<>>]

Pending == Msg("Pending")
Processing == Msg("Processing")
RequestError == Msg("RequestError")
RequestInitError == Msg("RequestInitError")
Concluded(bytes_in_out) == [tag |-> "Concluded", bytes |-> bytes_in_out]

\* MonitorSuccess values a worker can measure.
BytePairs == {<<3, 4>>}

\* Result<MonitorSuccess, MonitorError> as the worker computes it.
MonOk(bytes_in_out) == [tag |-> "Ok", bytes |-> bytes_in_out]
MonErr(err) == [tag |-> err, bytes |-> <<>>]

NoTask == ClientTask(0, 0, <<>>)

\* MessageToServer::Client(ClientRequest::ProcFile(task))
ClientMsg(task) ==
    [kind |-> "Client", task |-> task, thread |-> 0, result |-> MonErr("none")]

\* MessageToServer::Monitor(MonitorResult { thread, result })
MonitorMsg(tid, result) ==
    [kind |-> "Monitor", task |-> NoTask, thread |-> tid, result |-> result]

\* MessageToServer::Client(ClientRequest::Status): the variant has no payload.
StatusMsg ==
    [kind |-> "Status", task |-> NoTask, thread |-> 0, result |-> MonErr("none")]

\* A faulty mon_res_to_cl_msg: every failure is reported as RequestError.
mon_res_to_cl_msg_flat(result) ==
    IF result.tag = "Ok" THEN Concluded(result.bytes) ELSE RequestError

\* mon_res_to_cl_msg
mon_res_to_cl_msg(result) ==
    IF result.tag = "Ok" THEN Concluded(result.bytes)
    ELSE IF result.tag \in {"NoTransformationsGiven", "InputFileError", "OutputFileError"}
         THEN RequestInitError
    ELSE RequestError

----------------------------------------------------------------------------
(* Worker threads: core/monitor.rs *)

\* The ways through start_pipeline_monitor for a task: where it returns.
WorkerOutcomes(task) ==
    IF task.transformations = <<>>
    THEN {MonErr("InputFileError"), MonErr("OutputFileError"),
          MonErr("NoTransformationsGiven")}
    ELSE {MonErr("InputFileError"), MonErr("OutputFileError"),
          MonErr("PipelineFailure"), MonErr("PipelineExitStatusError"),
          MonErr("InputFileMetadataError"), MonErr("OutputFileMetadataError")}
         \cup {MonOk(b) : b \in BytePairs}

\* The outcomes that reach the sender.send at the end of the function; the
\* others leave it early through `?` or `return Err(..)`.
ReachesSend(result) ==
    result.tag \in {"Ok", "PipelineFailure", "PipelineExitStatusError"}

\* start_pipeline_monitor: the completion events thread tid posts when it
\* ends with result.
start_pipeline_monitor(tid, result) ==
    IF ReachesSend(result) THEN <<MonitorMsg(tid, result)>> ELSE <<>>

\* How a thread that took a way through start_pipeline_monitor ended: before
\* the pipeline ran, after it ran without a completion event, or with one.
EndedAs(result) ==
    IF result.tag \in {"InputFileError", "OutputFileError", "NoTransformationsGiven"}
    THEN "init_error"
    ELSE IF result.tag \in {"InputFileMetadataError", "OutputFileMetadataError"}
    THEN "metadata_error"
    ELSE "completed"

\* A spawned worker thread, still running its pipeline.
NewThread(task) == [task |-> task, state |-> "running", posted |-> 0]

\* A faulty WorkerFinish: the worker itself gives back the counts of its task
\* and takes its record out of the table.
WorkerFinishReleasing(tid) ==
    /\ tid \in 1..Len(threads)
    /\ threads[tid].state = "running"
    /\ \E result \in WorkerOutcomes(threads[tid].task) :
          LET events == start_pipeline_monitor(tid, result)
          IN  /\ threads' = [threads EXCEPT ![tid].state = EndedAs(result),
                                            ![tid].posted = Len(events)]
              /\ chan' = chan \o events
    /\ filters_count' = sub_assign(filters_count, threads[tid].task.transformations)
    /\ running_tasks' = [t \in DOMAIN running_tasks \ {tid} |-> running_tasks[t]]
    /\ UNCHANGED <<client, call, ret, epochs, status_asked, status_log, limits, pc,
                   task_counter, task_pqueue, sent, send_failed, requests, popped, nfaults,
                   destination, spins>>

\* A worker thread runs start_pipeline_monitor to its end.
WorkerFinish(tid) ==
    /\ tid \in 1..Len(threads)
    /\ threads[tid].state = "running"
    /\ \E result \in WorkerOutcomes(threads[tid].task) :
          LET events == start_pipeline_monitor(tid, result)
          IN  /\ threads' = [threads EXCEPT ![tid].state = EndedAs(result),
                                            ![tid].posted = Len(events)]
              /\ chan' = chan \o events
    /\ UNCHANGED <<client, call, ret, epochs, status_asked, status_log, limits, pc, task_counter, task_pqueue, filters_count,
                   running_tasks, sent, send_failed, requests, popped, nfaults, destination, spins>>

----------------------------------------------------------------------------
(* The listener thread: udsock_listen *)

\* A faulty Listen: the request is put in front of what waits in the channel.
ListenFront ==
    /\ Len(requests) + Len(status_asked) < MaxRequests
    /\ \E task \in TaskPool :
          /\ chan' = <<ClientMsg(task)>> \o chan
          /\ requests' = Append(requests, task)
    /\ UNCHANGED <<client, call, ret, epochs, status_asked, status_log, limits, pc,
                   task_counter, task_pqueue, filters_count, running_tasks, threads, sent,
                   send_failed, popped, nfaults, destination, spins>>

\* One datagram is read, decoded and forwarded to the coordinator.
Listen ==
    /\ Len(requests) + Len(status_asked) < MaxRequests
    /\ \E task \in TaskPool :
          /\ chan' = Append(chan, ClientMsg(task))
          /\ requests' = Append(requests, task)
    /\ UNCHANGED <<client, call, ret, epochs, status_asked, status_log, limits, pc, task_counter, task_pqueue, filters_count,
                   running_tasks, threads, sent, send_failed, popped, nfaults, destination, spins>>

\* One Status datagram is read, decoded and forwarded to the coordinator.
ListenStatus ==
    /\ Len(requests) + Len(status_asked) < MaxRequests
    /\ \E pid \in Pids :
          /\ chan' = Append(chan, StatusMsg)
          /\ status_asked' = Append(status_asked, pid)
    /\ UNCHANGED <<client, call, ret, epochs, status_log, limits, pc, task_counter, task_pqueue,
                   filters_count, running_tasks, threads, sent, send_failed, requests,
                   popped, nfaults, destination, spins>>

\* Requests of one priority from several clients, for a server started with
\* the limits file "encrypt 2".
TieLimits == ParsedConfig(0, 2)

TiePool ==
    {ClientTask(p, 1, <<"encrypt">>) : p \in Pids}
        \cup {ClientTask(1, 1, <<"encrypt", "encrypt">>)}

\* udsock_listen when the clients all ask for the same priority.
ListenTies ==
    /\ Len(requests) + Len(status_asked) < MaxRequests
    /\ \E task \in TiePool :
          /\ chan' = Append(chan, ClientMsg(task))
          /\ requests' = Append(requests, task)
    /\ UNCHANGED <<client, call, ret, epochs, status_asked, status_log, limits, pc, task_counter,
                   task_pqueue, filters_count, running_tasks, threads, sent, send_failed,
                   popped, nfaults, destination, spins>>

----------------------------------------------------------------------------
(* The coordinator over ServerState: core/server/state.rs *)

\* ServerState::send_msg_to_client: the datagram reaches the client's socket
\* (ok) or the send returns an error.
send_msg_to_client(client_pid, message, ok) ==
    /\ sent' = IF ok THEN [sent EXCEPT ![client_pid] = Append(@, message)] ELSE sent
    /\ send_failed' = IF ok THEN send_failed ELSE send_failed \cup {client_pid}

\* What a send or a thread spawn can do: succeed, or fail while the model's
\* budget of failures lasts.
Outcomes == IF nfaults < MaxFaults THEN BOOLEAN ELSE {TRUE}

Fault(ok) == IF ok THEN 0 ELSE 1

\* A faulty Monitor: the task number given is not kept, every record has
\* number 0.
MonitorUnnumbered(task, task_number) == [task |-> task, task_number |-> 0]

\* Monitor { task, task_number, thread }
Monitor(task, task_number) == [task |-> task, task_number |-> task_number]

Insert(table, key, value) ==
    [k \in DOMAIN table \cup {key} |-> IF k = key THEN value ELSE table[k]]

Remove(table, key) == [k \in DOMAIN table \ {key} |-> table[k]]

\* A faulty new_task: the filters of the task are counted when it is queued.
new_task_reserving ==
    /\ pc = "recv"
    /\ chan /= <<>>
    /\ Head(chan).kind = "Client"
    /\ LET task == Head(chan).task
       IN  /\ \E q \in PQPush(task_pqueue, task) : task_pqueue' = q
           /\ filters_count' = add_assign(filters_count, task.transformations)
           /\ \E ok \in Outcomes :
                /\ send_msg_to_client(task.client_pid, Pending, ok)
                /\ nfaults' = nfaults + Fault(ok)
    /\ chan' = Tail(chan)
    /\ pc' = "drain"
    /\ UNCHANGED <<client, call, ret, epochs, status_asked, status_log, limits, task_counter,
                   running_tasks, threads, requests, popped, destination, spins>>

\* ServerState::new_task, called for a ProcFile request taken off the channel.
new_task ==
    /\ pc = "recv"
    /\ chan /= <<>>
    /\ Head(chan).kind = "Client"
    /\ LET task == Head(chan).task
       IN  /\ \E q \in PQPush(task_pqueue, task) : task_pqueue' = q
           /\ \E ok \in Outcomes :
                /\ send_msg_to_client(task.client_pid, Pending, ok)
                /\ nfaults' = nfaults + Fault(ok)
    /\ chan' = Tail(chan)
    /\ pc' = "drain"
    /\ UNCHANGED <<client, call, ret, epochs, status_asked, status_log, limits, task_counter, filters_count, running_tasks, threads,
                   requests, popped, destination, spins>>

\* A faulty handle_task_result: the completion of an unknown worker is
\* dropped and the coordinator goes on.
handle_task_result_lenient ==
    /\ pc = "recv"
    /\ chan /= <<>>
    /\ Head(chan).kind = "Monitor"
    /\ chan' = Tail(chan)
    /\ LET thread == Head(chan).thread
           result == Head(chan).result
       IN  IF thread \notin DOMAIN running_tasks
           THEN /\ pc' = "drain"
                /\ UNCHANGED <<running_tasks, filters_count, sent, send_failed, nfaults>>
           ELSE LET monitor == running_tasks[thread]
                IN  /\ running_tasks' = Remove(running_tasks, thread)
                    /\ filters_count' =
                          sub_assign(filters_count, monitor.task.transformations)
                    /\ \E ok \in Outcomes :
                          /\ send_msg_to_client(monitor.task.client_pid,
                                                mon_res_to_cl_msg(result), ok)
                          /\ nfaults' = nfaults + Fault(ok)
                    /\ pc' = "drain"
    /\ UNCHANGED <<client, call, ret, epochs, status_asked, status_log, limits, task_counter,
                   task_pqueue, threads, requests, popped, destination, spins>>

\* ServerState::handle_task_result, called for a worker completion taken off
\* the channel.
handle_task_result ==
    /\ pc = "recv"
    /\ chan /= <<>>
    /\ Head(chan).kind = "Monitor"
    /\ chan' = Tail(chan)
    /\ LET thread == Head(chan).thread
           result == Head(chan).result
       IN  IF thread \notin DOMAIN running_tasks
           THEN /\ pc' = "panicked"
                /\ UNCHANGED <<running_tasks, filters_count, sent, send_failed, nfaults>>
           ELSE LET monitor == running_tasks[thread]
                IN  /\ running_tasks' = Remove(running_tasks, thread)
                    /\ filters_count' =
                          sub_assign(filters_count, monitor.task.transformations)
                    /\ \E ok \in Outcomes :
                          /\ send_msg_to_client(monitor.task.client_pid,
                                                mon_res_to_cl_msg(result), ok)
                          /\ nfaults' = nfaults + Fault(ok)
                    /\ pc' = "drain"
    /\ UNCHANGED <<client, call, ret, epochs, status_asked, status_log, limits, task_counter, task_pqueue, threads, requests, popped,
                   destination, spins>>

----------------------------------------------------------------------------
(* The status text: fmt_client_status, fmt_running_task, fmt_filters *)

\* A text is the sequence of the pieces written into the String, in order.
RECURSIVE fmt_transformations(_)
fmt_transformations(transformations) ==
    IF transformations = <<>> THEN <<>>
    ELSE <<" ", Head(transformations)>> \o fmt_transformations(Tail(transformations))

\* fmt_running_task: "task #{}: proc-file {} {} {}", then " {}" for each
\* transformation, then "\n".
fmt_running_task(monitor) ==
    <<"task #", ToString(monitor.task_number), ": proc-file ",
      ToString(monitor.task.priority), " ", monitor.task.input, " ",
      monitor.task.output>>
        \o fmt_transformations(monitor.task.transformations) \o <<"\n">>

\* A faulty writeln: the limit is written before the running count.
fmt_filter_line_swapped(name, running, max) ==
    <<"transformation ", name, ": ", ToString(max), "/", ToString(running),
      " (running/max)", "\n">>

\* One writeln! of fmt_filters.
fmt_filter_line(name, running, max) ==
    <<"transformation ", name, ": ", ToString(running), "/", ToString(max),
      " (running/max)", "\n">>

\* fmt_filters: seven lines, in the order the function writes them.
fmt_filters(running, config) ==
    fmt_filter_line("nop", running["nop"], config["nop"])
        \o fmt_filter_line("bcompress", running["bcompress"], config["bcompress"])
        \o fmt_filter_line("bdecompress", running["bdecompress"], config["bdecompress"])
        \o fmt_filter_line("gcompress", running["gcompress"], config["gcompress"])
        \o fmt_filter_line("gdecompress", running["gdecompress"], config["gdecompress"])
        \o fmt_filter_line("encrypt", running["encrypt"], config["encrypt"])
        \o fmt_filter_line("decrypt", running["decrypt"], config["decrypt"])

\* running_tasks.values(): the monitors in some iteration order of the map.
IterationOrders(table) ==
    {order \in [1..Cardinality(DOMAIN table) -> DOMAIN table] :
        \A i, j \in DOMAIN order : i /= j => order[i] /= order[j]}

Values(table, order) == [i \in DOMAIN order |-> table[order[i]]]

\* Insertion of one monitor into a sequence sorted by task_number, after the
\* monitors whose number is not greater (the sort is stable).
RECURSIVE SortedInsert(_, _)
SortedInsert(sorted, monitor) ==
    IF sorted = <<>> THEN <<monitor>>
    ELSE IF Head(sorted).task_number <= monitor.task_number
         THEN <<Head(sorted)>> \o SortedInsert(Tail(sorted), monitor)
         ELSE <<monitor>> \o sorted

\* A faulty sort_by: the monitors stay in iteration order.
sort_by_identity(mons) == mons

\* sorted_mons.sort_by(|mon1, mon2| mon1.task_number.cmp(&mon2.task_number))
RECURSIVE sort_by_task_number(_)
sort_by_task_number(mons) ==
    IF mons = <<>> THEN <<>>
    ELSE SortedInsert(sort_by_task_number(SubSeq(mons, 1, Len(mons) - 1)),
                      mons[Len(mons)])

RECURSIVE fmt_running_tasks(_)
fmt_running_tasks(mons) ==
    IF mons = <<>> THEN <<>>
    ELSE fmt_running_task(Head(mons)) \o fmt_running_tasks(Tail(mons))

\* The String fmt_client_status builds when the map iterates in this order.
status_msg(table, running, config, order) ==
    fmt_running_tasks(sort_by_task_number(Values(table, order)))
        \o fmt_filters(running, config)

\* Status messages still in the channel.
StatusInChan == Cardinality({i \in 1..Len(chan) : chan[i].kind = "Status"})

\* The client whose Status request is at the head of the channel: the
\* requests are handled in the order the listener forwarded them.
StatusClient == status_asked[Len(status_asked) - StatusInChan + 1]

\* A faulty fmt_client_status: it takes a task number while rendering.
fmt_client_status_counting ==
    /\ pc = "recv"
    /\ chan /= <<>>
    /\ Head(chan).kind = "Status"
    /\ chan' = Tail(chan)
    /\ task_counter' = task_counter + 1
    /\ pc' = "drain"
    /\ UNCHANGED <<client, call, ret, epochs, status_asked, status_log, limits, task_pqueue,
                   filters_count, running_tasks, threads, sent, send_failed, requests,
                   popped, nfaults, destination, spins>>

\* ServerState::fmt_client_status, called for a Status request taken off the
\* channel: the text is built and sent to the requester.
fmt_client_status ==
    /\ pc = "recv"
    /\ chan /= <<>>
    /\ Head(chan).kind = "Status"
    /\ chan' = Tail(chan)
    /\ \E order \in IterationOrders(running_tasks) :
          \E ok \in Outcomes :
             /\ status_log' =
                   IF ok
                   THEN [status_log EXCEPT ![StatusClient] =
                            Append(@, status_msg(running_tasks, filters_count, limits,
                                                 order))]
                   ELSE status_log
             /\ send_failed' = IF ok THEN send_failed ELSE send_failed \cup {StatusClient}
             /\ nfaults' = nfaults + Fault(ok)
    /\ pc' = "drain"
    /\ UNCHANGED <<client, call, ret, epochs, status_asked, limits, task_counter, task_pqueue,
                   filters_count, running_tasks, threads, sent, requests, popped,
                   destination, spins>>

\* Worker completions handled so far: the monitors taken out of the table.
Completed == Len(threads) - Cardinality(DOMAIN running_tasks)

\* ServerState::try_pop_task finds the head admissible.
CanPop ==
    /\ task_pqueue /= <<>>
    /\ can_run_pipeline(filters_count, limits, PQPeek(task_pqueue).transformations)

\* ServerState::process_task on the task try_pop_task returned: Processing
\* is sent first and a failed send returns early; then the counts and the
\* counter are updated; then Monitor::build spawns the worker thread, and a
\* failed spawn returns before the monitor is inserted.
process_task ==
    /\ pc = "drain"
    /\ CanPop
    /\ LET task == PQPeek(task_pqueue)
       IN  /\ task_pqueue' = PQPop(task_pqueue)
           /\ popped' = Append(popped, task)
           /\ epochs' = Append(epochs, Completed)
           /\ \E ok \in Outcomes :
                /\ send_msg_to_client(task.client_pid, Processing, ok)
                /\ IF ~ok
                   THEN /\ nfaults' = nfaults + 1
                        /\ UNCHANGED <<filters_count, task_counter, threads, running_tasks>>
                   ELSE /\ filters_count' = add_assign(filters_count, task.transformations)
                        /\ task_counter' = task_counter + 1
                        /\ \E spawned \in Outcomes :
                             /\ nfaults' = nfaults + Fault(spawned)
                             /\ IF spawned
                                THEN /\ threads' = Append(threads, NewThread(task))
                                     /\ running_tasks' =
                                           Insert(running_tasks, Len(threads) + 1,
                                                  Monitor(task, task_counter))
                                ELSE UNCHANGED <<threads, running_tasks>>
    /\ pc' = "drain"
    /\ UNCHANGED <<client, call, ret, status_asked, status_log, limits, chan, requests, destination,
                   spins>>

\* The drain loop ends: try_pop_task returned None, back to receiver.recv().
DrainDone ==
    /\ pc = "drain"
    /\ ~CanPop
    /\ pc' = "recv"
    /\ UNCHANGED <<client, call, ret, epochs, status_asked, status_log, limits, task_counter, task_pqueue, filters_count, running_tasks,
                   chan, threads, sent, send_failed, requests, popped, nfaults, destination, spins>>

----------------------------------------------------------------------------
(* The coordinator of bin/sdstored.rs *)

\* The server socket before any set_destination.
NoDestination == 0

\* Concluded as bin/sdstored.rs sends it: the variant carries no byte counts.
ConcludedUnit == Msg("Concluded")

\* The Result<(ThreadId, ExitStatus), MonitorError> that process_task_result
\* matches on, for a worker's completion event: "success", "failure" (the
\* pipeline ran and exited non-zero) or "error".
BinMonitorResult(result) ==
    IF result.tag = "Ok" THEN "success"
    ELSE IF result.tag = "PipelineExitStatusError" THEN "failure"
    ELSE "error"

\* listener.send on the connected socket: the datagram goes to the current
\* destination, and to nobody when none was ever set.
BinSend(dest, message, ok) ==
    IF ok /\ dest /= NoDestination
    THEN /\ sent' = [sent EXCEPT ![dest] = Append(@, message)]
         /\ UNCHANGED send_failed
    ELSE /\ UNCHANGED sent
         /\ send_failed' =
               IF dest = NoDestination THEN send_failed ELSE send_failed \cup {dest}

\* accept_task, and the unwrap of its result in main.
accept_task ==
    /\ pc = "recv"
    /\ chan /= <<>>
    /\ Head(chan).kind = "Client"
    /\ chan' = Tail(chan)
    /\ LET task == Head(chan).task
       IN  /\ \E q \in PQPush(task_pqueue, task) : task_pqueue' = q
           /\ \E ok \in Outcomes :
                /\ destination' = task.client_pid
                /\ BinSend(task.client_pid, Pending, ok)
                /\ nfaults' = nfaults + Fault(ok)
                /\ pc' = IF ok THEN "steal" ELSE "panicked"
    /\ UNCHANGED <<client, call, ret, epochs, status_asked, status_log, limits, task_counter, filters_count, running_tasks, threads,
                   requests, popped, spins>>

\* The ClientRequest::Status arm of main: an empty block; task_steal follows
\* as after every message.
status_arm ==
    /\ pc = "recv"
    /\ chan /= <<>>
    /\ Head(chan).kind = "Status"
    /\ chan' = Tail(chan)
    /\ pc' = "steal"
    /\ UNCHANGED <<client, call, ret, epochs, status_asked, status_log, limits, task_counter,
                   task_pqueue, filters_count, running_tasks, threads, sent, send_failed,
                   requests, popped, nfaults, destination, spins>>

\* process_task_result; main ignores the io::Result it returns.
process_task_result ==
    /\ pc = "recv"
    /\ chan /= <<>>
    /\ Head(chan).kind = "Monitor"
    /\ chan' = Tail(chan)
    /\ LET thread == Head(chan).thread
           result == BinMonitorResult(Head(chan).result)
       IN  IF result = "error"
           THEN \* Err(_): RequestError goes to whatever destination is set.
                /\ \E ok \in Outcomes :
                     /\ BinSend(destination, RequestError, ok)
                     /\ nfaults' = nfaults + Fault(ok)
                /\ pc' = "steal"
                /\ UNCHANGED <<running_tasks, filters_count, destination>>
           ELSE IF thread \notin DOMAIN running_tasks
           THEN /\ pc' = "panicked"
                /\ UNCHANGED <<running_tasks, filters_count, destination, sent,
                               send_failed, nfaults>>
           ELSE LET monitor == running_tasks[thread]
                    message == IF result = "success" THEN ConcludedUnit
                               ELSE RequestError
                IN  /\ running_tasks' = Remove(running_tasks, thread)
                    /\ filters_count' =
                          sub_assign(filters_count, monitor.task.transformations)
                    /\ \E connected \in Outcomes :
                         IF connected
                         THEN /\ destination' = monitor.task.client_pid
                              /\ \E ok \in Outcomes :
                                   /\ BinSend(monitor.task.client_pid, message, ok)
                                   /\ nfaults' = nfaults + Fault(ok)
                         ELSE \* set_destination failed: `?` returns before the send.
                              /\ nfaults' = nfaults + 1
                              /\ send_failed' =
                                    send_failed \cup {monitor.task.client_pid}
                              /\ UNCHANGED <<destination, sent>>
                    /\ pc' = "steal"
    /\ UNCHANGED <<client, call, ret, epochs, status_asked, status_log, limits, task_counter, task_pqueue, threads, requests, popped, spins>>

\* One evaluation of task_steal's `while let Some(..) = task_pqueue.peek()`
\* and of the loop body.
task_steal ==
    /\ pc = "steal"
    /\ IF task_pqueue = <<>>
       THEN \* peek() is None: the loop ends and main goes back to recv().
            /\ pc' = "recv"
            /\ spins' = 0
            /\ UNCHANGED <<task_counter, task_pqueue, filters_count, running_tasks,
                           threads, sent, send_failed, popped, epochs, nfaults,
                           destination>>
       ELSE IF can_run_pipeline(filters_count, limits,
                                PQPeek(task_pqueue).transformations)
       THEN LET task == PQPeek(task_pqueue)
            IN  /\ task_pqueue' = PQPop(task_pqueue)
                /\ popped' = Append(popped, task)
                /\ epochs' = Append(epochs, Completed)
                /\ destination' = task.client_pid
                /\ spins' = 0
                /\ \E ok \in Outcomes :
                     /\ BinSend(task.client_pid, Processing, ok)
                     /\ IF ~ok
                        THEN \* the unwrap of the send panics
                             /\ nfaults' = nfaults + 1
                             /\ pc' = "panicked"
                             /\ UNCHANGED <<filters_count, task_counter, threads,
                                            running_tasks>>
                        ELSE /\ filters_count' =
                                   add_assign(filters_count, task.transformations)
                             /\ \E spawned \in Outcomes :
                                  /\ nfaults' = nfaults + Fault(spawned)
                                  /\ IF spawned
                                     THEN /\ threads' = Append(threads, NewThread(task))
                                          /\ running_tasks' =
                                                Insert(running_tasks, Len(threads) + 1,
                                                       Monitor(task, task_counter))
                                          /\ task_counter' = task_counter + 1
                                          /\ pc' = "steal"
                                     ELSE \* the unwrap of Monitor::build panics
                                          /\ pc' = "panicked"
                                          /\ UNCHANGED <<threads, running_tasks,
                                                         task_counter>>
       ELSE \* the head cannot run: the body does nothing and the loop
            \* condition is evaluated again on the same queue.
            /\ spins' = IF spins < MaxSpin THEN spins + 1 ELSE spins
            /\ pc' = "steal"
            /\ UNCHANGED <<task_counter, task_pqueue, filters_count, running_tasks,
                           threads, sent, send_failed, popped, epochs, nfaults,
                           destination>>
    /\ UNCHANGED <<client, call, ret, status_asked, status_log, limits, chan, requests>>

----------------------------------------------------------------------------
(* Specifications *)

NoCall == [fn |-> "none"]

NotReturned == <<>>

\* No client process is looked at.
NoClient == [pc |-> "none"]

Returned(value) == <<value>>

\* ServerState::new.
InitEngine ==
    /\ pc = "recv"
    /\ task_counter = 0
    /\ task_pqueue = <<>>
    /\ filters_count = DefaultCounts
    /\ running_tasks = <<>>
    /\ chan = <<>>
    /\ threads = <<>>
    /\ sent = [p \in Pids |-> <<>>]
    /\ send_failed = {}
    /\ requests = <<>>
    /\ popped = <<>>
    /\ nfaults = 0
    /\ destination = NoDestination
    /\ spins = 0
    /\ epochs = <<>>
    /\ status_asked = <<>>
    /\ status_log = [p \in Pids |-> <<>>]

\* ServerState::new, and the configuration main read before it.
InitServer ==
    /\ limits \in Configs
    /\ InitEngine

Init ==
    /\ client = NoClient
    /\ InitServer
    /\ call = NoCall
    /\ ret = NotReturned

Next ==
    \/ Listen
    \/ ListenStatus
    \/ fmt_client_status
    \/ \E tid \in 1..MaxRequests : WorkerFinish(tid)
    \/ new_task
    \/ handle_task_result
    \/ process_task
    \/ DrainDone

Spec == Init /\ [][Next]_vars

InitTies ==
    /\ client = NoClient
    /\ limits = TieLimits
    /\ InitEngine
    /\ call = NoCall
    /\ ret = NotReturned

NextTies ==
    \/ ListenTies
    \/ \E tid \in 1..MaxRequests : WorkerFinish(tid)
    \/ new_task
    \/ handle_task_result
    \/ process_task
    \/ DrainDone

SpecTies == InitTies /\ [][NextTies]_vars

NextBin ==
    \/ Listen
    \/ ListenStatus
    \/ status_arm
    \/ \E tid \in 1..MaxRequests : WorkerFinish(tid)
    \/ accept_task
    \/ process_task_result
    \/ task_steal

SpecBin == Init /\ [][NextBin]_vars

----------------------------------------------------------------------------
(* Completion events of workers the table does not know *)

\* A MonitorResult is posted through a clone of the coordinator's Sender for
\* a worker whose record has already been taken out of running_tasks; one
\* such event is in the channel at a time.
StrayCompletion ==
    /\ pc /= "panicked"
    /\ \A i \in 1..Len(chan) :
          chan[i].kind = "Monitor" => chan[i].thread \in DOMAIN running_tasks
    /\ \E tid \in 1..Len(threads) :
          /\ tid \notin DOMAIN running_tasks
          /\ \E result \in {MonOk(b) : b \in BytePairs} :
                chan' = Append(chan, MonitorMsg(tid, result))
    /\ UNCHANGED <<client, call, ret, epochs, status_asked, status_log, limits, pc, task_counter,
                   task_pqueue, filters_count, running_tasks, threads, sent, send_failed,
                   requests, popped, nfaults, destination, spins>>

NextStray ==
    \/ Listen
    \/ StrayCompletion
    \/ \E tid \in 1..MaxRequests : WorkerFinish(tid)
    \/ new_task
    \/ handle_task_result
    \/ process_task
    \/ DrainDone

SpecStray == Init /\ [][NextStray]_vars

----------------------------------------------------------------------------
(* process_task step by step: the worker runs while the handler goes on *)

\* ServerState::process_task up to the return of Monitor::build: the worker
\* thread exists and runs, its record is not in running_tasks yet.
process_task_spawn ==
    /\ pc = "drain"
    /\ CanPop
    /\ LET task == PQPeek(task_pqueue)
       IN  /\ task_pqueue' = PQPop(task_pqueue)
           /\ popped' = Append(popped, task)
           /\ epochs' = Append(epochs, Completed)
           /\ \E ok \in Outcomes :
                /\ send_msg_to_client(task.client_pid, Processing, ok)
                /\ IF ~ok
                   THEN /\ nfaults' = nfaults + 1
                        /\ pc' = "drain"
                        /\ UNCHANGED <<filters_count, task_counter, threads>>
                   ELSE /\ filters_count' = add_assign(filters_count, task.transformations)
                        /\ task_counter' = task_counter + 1
                        /\ \E spawned \in Outcomes :
                             /\ nfaults' = nfaults + Fault(spawned)
                             /\ IF spawned
                                THEN /\ threads' = Append(threads, NewThread(task))
                                     /\ pc' = "insert"
                                ELSE /\ pc' = "drain"
                                     /\ UNCHANGED threads
    /\ UNCHANGED <<client, call, ret, status_asked, status_log, limits, chan, requests,
                   destination, spins, running_tasks>>

\* A faulty process_task_insert: the record is filed under its task number.
process_task_insert_by_number ==
    /\ pc = "insert"
    /\ running_tasks' =
          Insert(running_tasks, task_counter - 1,
                 Monitor(threads[Len(threads)].task, task_counter - 1))
    /\ pc' = "drain"
    /\ UNCHANGED <<client, call, ret, epochs, status_asked, status_log, limits,
                   task_counter, task_pqueue, filters_count, chan, threads, sent,
                   send_failed, requests, popped, nfaults, destination, spins>>

\* The rest of ServerState::process_task: the monitor of the thread just
\* spawned is inserted under that thread's id, with the task number taken.
process_task_insert ==
    /\ pc = "insert"
    /\ running_tasks' =
          Insert(running_tasks, Len(threads),
                 Monitor(threads[Len(threads)].task, task_counter - 1))
    /\ pc' = "drain"
    /\ UNCHANGED <<client, call, ret, epochs, status_asked, status_log, limits,
                   task_counter, task_pqueue, filters_count, chan, threads, sent,
                   send_failed, requests, popped, nfaults, destination, spins>>

NextInterleaved ==
    \/ Listen
    \/ \E tid \in 1..MaxRequests : WorkerFinish(tid)
    \/ new_task
    \/ handle_task_result
    \/ process_task_spawn
    \/ process_task_insert
    \/ DrainDone

SpecInterleaved == Init /\ [][NextInterleaved]_vars

----------------------------------------------------------------------------
(* The admission predicate applied to drawn arguments *)

\* Count records that differ in the first field, a middle field and the last.
SmallCounts ==
    {[DefaultCounts EXCEPT !["nop"] = a, !["encrypt"] = b, !["decrypt"] = c] :
        a \in 0..MaxCount, b \in 0..MaxCount, c \in 0..MaxCount}

AdmissionRequests ==
    {<<>>, <<"nop">>, <<"encrypt">>, <<"encrypt", "encrypt">>, <<"decrypt", "nop">>}

InitAdmission ==
    /\ client = NoClient
    /\ InitServer
    /\ call \in {[fn |-> "can_run_pipeline", running |-> r, server_cfg |-> c,
                  client_req |-> q] :
                    r \in SmallCounts, c \in SmallCounts, q \in AdmissionRequests}
    /\ ret = NotReturned

ApplyCanRunPipeline ==
    /\ call.fn = "can_run_pipeline"
    /\ ret = NotReturned
    /\ ret' = Returned(can_run_pipeline(call.running, call.server_cfg, call.client_req))
    /\ UNCHANGED <<client, call, epochs, status_asked, status_log, limits, pc, task_counter, task_pqueue, filters_count,
                   running_tasks, chan, threads, sent, send_failed, requests, popped,
                   nfaults, destination, spins>>

SpecAdmission == InitAdmission /\ [][ApplyCanRunPipeline]_vars

----------------------------------------------------------------------------
(* mon_res_to_cl_msg applied to drawn results *)

MonitorErrors ==
    {"NoTransformationsGiven", "InputFileError", "OutputFileError", "PipelineFailure",
     "PipelineExitStatusError", "InputFileMetadataError", "OutputFileMetadataError",
     "MpscSenderError"}

MonitorResults ==
    {MonOk(<<i, o>>) : i \in 0..MaxBytes, o \in 0..MaxBytes}
        \cup {MonErr(err) : err \in MonitorErrors}

InitMessages ==
    /\ client = NoClient
    /\ InitServer
    /\ call \in {[fn |-> "mon_res_to_cl_msg", result |-> r] : r \in MonitorResults}
    /\ ret = NotReturned

ApplyMonResToClMsg ==
    /\ call.fn = "mon_res_to_cl_msg"
    /\ ret = NotReturned
    /\ ret' = Returned(mon_res_to_cl_msg(call.result))
    /\ UNCHANGED <<client, call, epochs, status_asked, status_log, limits, pc, task_counter,
                   task_pqueue, filters_count, running_tasks, chan, threads, sent,
                   send_failed, requests, popped, nfaults, destination, spins>>

SpecMessages == InitMessages /\ [][ApplyMonResToClMsg]_vars

----------------------------------------------------------------------------
(* Strings, as sequences of characters *)

Lowercase ==
    <<"a", "b", "c", "d", "e", "f", "g", "h", "i", "j", "k", "l", "m",
      "n", "o", "p", "q", "r", "s", "t", "u", "v", "w", "x", "y", "z">>

Uppercase ==
    <<"A", "B", "C", "D", "E", "F", "G", "H", "I", "J", "K", "L", "M",
      "N", "O", "P", "Q", "R", "S", "T", "U", "V", "W", "X", "Y", "Z">>

Digits == <<"0", "1", "2", "3", "4", "5", "6", "7", "8", "9">>

\* char::to_lowercase on the characters drawn here.
char_to_lowercase(c) ==
    IF \E k \in 1..Len(Uppercase) : Uppercase[k] = c
    THEN Lowercase[CHOOSE k \in 1..Len(Uppercase) : Uppercase[k] = c]
    ELSE c

\* A faulty to_lowercase: the string is left as it is.
to_lowercase_none(s) == s

\* str::to_lowercase
to_lowercase(s) == [i \in 1..Len(s) |-> char_to_lowercase(s[i])]

\* The string literals of the match in Filter::from_str.
Spelling ==
    [f \in Filters |->
        CASE f = "nop" -> <<"n", "o", "p">>
          [] f = "bcompress" -> <<"b", "c", "o", "m", "p", "r", "e", "s", "s">>
          [] f = "bdecompress" -> <<"b", "d", "e", "c", "o", "m", "p", "r", "e", "s", "s">>
          [] f = "gcompress" -> <<"g", "c", "o", "m", "p", "r", "e", "s", "s">>
          [] f = "gdecompress" -> <<"g", "d", "e", "c", "o", "m", "p", "r", "e", "s", "s">>
          [] f = "encrypt" -> <<"e", "n", "c", "r", "y", "p", "t">>
          [] f = "decrypt" -> <<"d", "e", "c", "r", "y", "p", "t">>]

\* Result<T, E>
Ok(value) == [tag |-> "Ok", value |-> value]
Err(error) == [tag |-> "Err", value |-> error]

\* FilterParseError(String)
FilterParseError(s) == [error |-> "FilterParseError", of |-> s]

\* impl FromStr for Filter: the match is on the lowercased string, and the
\* error carries that lowercased string.
from_str(s) ==
    LET lowered == to_lowercase(s)
    IN  IF \E f \in Filters : Spelling[f] = lowered
        THEN Ok(CHOOSE f \in Filters : Spelling[f] = lowered)
        ELSE Err(FilterParseError(lowered))

\* str::trim on strings whose only whitespace is the space.
RECURSIVE trim(_)
trim(s) ==
    IF s = <<>> THEN s
    ELSE IF Head(s) = " " THEN trim(Tail(s))
    ELSE IF s[Len(s)] = " " THEN trim(SubSeq(s, 1, Len(s) - 1))
    ELSE s

IsDigit(c) == \E k \in 1..Len(Digits) : Digits[k] = c

DigitValue(c) == (CHOOSE k \in 1..Len(Digits) : Digits[k] = c) - 1

\* The value of a non-empty string of digits, most significant first.
RECURSIVE DecimalValue(_)
DecimalValue(digits) ==
    IF Len(digits) = 1 THEN DigitValue(digits[1])
    ELSE 10 * DecimalValue(SubSeq(digits, 1, Len(digits) - 1))
            + DigitValue(digits[Len(digits)])

\* usize::from_str: an optional "+" and then one or more digits; the empty
\* string, a lone sign, "-" and any other character are errors. (The strings
\* drawn are too short to overflow 64 bits.)
parse_usize(s) ==
    LET digits == IF Len(s) > 1 /\ s[1] = "+" THEN Tail(s) ELSE s
    IN  IF digits /= <<>> /\ \A i \in 1..Len(digits) : IsDigit(digits[i])
        THEN Ok(DecimalValue(digits))
        ELSE Err("ParseIntError")

----------------------------------------------------------------------------
(* The client: bin/sdstore.rs *)

MaxDatagrams == 3

\* The pid of the client process looked at.
ClientPid == 1

StatusCommand == <<"s", "t", "a", "t", "u", "s">>

ProcFileCommand == <<"p", "r", "o", "c", "-", "f", "i", "l", "e">>

\* ClientRequest::Status and ClientRequest::ProcFile(task)
StatusRequest == [request |-> "Status", task |-> NoTask]
ProcFileRequest(task) == [request |-> "ProcFile", task |-> task]

\* The filters of the arguments left in the iterator, up to the first one
\* Filter::from_str rejects.
RECURSIVE parse_filters(_, _)
parse_filters(args, transformations) ==
    IF args = <<>> THEN Ok(transformations)
    ELSE LET parsed == from_str(Head(args))
         IN  IF parsed.tag = "Err"
             THEN Err([error |-> "InvalidFilterProvided", of |-> parsed.value])
             ELSE parse_filters(Tail(args), Append(transformations, parsed.value))

\* A faulty ClientTask::build: the two paths are looked for before the
\* priority is parsed.
ClientTask_build_paths_first(args, client_pid) ==
    IF args = <<>> THEN Err([error |-> "NoPriorityProvided", of |-> <<>>])
    ELSE IF Len(args) < 3
    THEN Err([error |-> "InvalidInputOutputPaths", of |-> <<>>])
    ELSE LET priority == parse_usize(trim(args[1]))
         IN  IF priority.tag = "Err"
             THEN Err([error |-> "InvalidPriority", of |-> <<>>])
             ELSE LET filters == parse_filters(SubSeq(args, 4, Len(args)), <<>>)
                  IN  IF filters.tag = "Err" THEN filters
                      ELSE IF filters.value = <<>>
                      THEN Err([error |-> "NoFiltersProvided", of |-> <<>>])
                      ELSE Ok([ClientTask(client_pid, priority.value, filters.value)
                                  EXCEPT !.input = args[2], !.output = args[3]])

\* ClientTask::build on the arguments after the command.
ClientTask_build(args, client_pid) ==
    IF args = <<>> THEN Err([error |-> "NoPriorityProvided", of |-> <<>>])
    ELSE LET priority == parse_usize(trim(args[1]))
         IN  IF priority.tag = "Err"
             THEN Err([error |-> "InvalidPriority", of |-> <<>>])
             ELSE IF Len(args) < 3
             THEN Err([error |-> "InvalidInputOutputPaths", of |-> <<>>])
             ELSE LET filters == parse_filters(SubSeq(args, 4, Len(args)), <<>>)
                  IN  IF filters.tag = "Err" THEN filters
                      ELSE IF filters.value = <<>>
                      THEN Err([error |-> "NoFiltersProvided", of |-> <<>>])
                      ELSE Ok([ClientTask(client_pid, priority.value, filters.value)
                                  EXCEPT !.input = args[2], !.output = args[3]])

\* ClientRequest::build on the arguments after the executable's name.
ClientRequest_build(args, client_pid) ==
    IF args = <<>> THEN Err([error |-> "NoCommandProvided", of |-> <<>>])
    ELSE IF args[1] = StatusCommand THEN Ok(StatusRequest)
    ELSE IF args[1] = ProcFileCommand
    THEN LET task == ClientTask_build(Tail(args), client_pid)
         IN  IF task.tag = "Err" THEN task ELSE Ok(ProcFileRequest(task.value))
    ELSE Err([error |-> "IncorrectCommandProvided", of |-> <<>>])

\* name with the letters at the positions in upper written in upper case.
CaseVariant(name, upper) ==
    [i \in 1..Len(name) |->
        IF i \in upper
        THEN Uppercase[CHOOSE k \in 1..Len(Lowercase) : Lowercase[k] = name[i]]
        ELSE name[i]]

\* Filter arguments a user can type: every spelling of the seven names in
\* every letter case, and some strings that are not names.
FilterArgs ==
    {CaseVariant(Spelling[f], upper) :
        f \in Filters, upper \in SUBSET (1..Len(Spelling["bdecompress"]))}
      \cup {<<"n", "o", "p", "p">>, <<"n", "o">>, <<"N", "O", "P", "P">>,
            <<"b", "c", "o", "m", "p", "r", "e", "s">>, <<"n", "o", "p", " ">>,
            <<"n", "0", "p">>}

PriorityArgs == {<<"5">>, <<" ", "1">>, <<"5", "a">>, <<"-", "1">>}

\* Command lines, without the executable's name.
ArgPool ==
    {<<>>, <<StatusCommand>>, <<Spelling["nop"]>>, <<ProcFileCommand>>}
      \cup {<<ProcFileCommand, p>> : p \in PriorityArgs}
      \cup {<<ProcFileCommand, p, "in">> : p \in PriorityArgs}
      \cup {<<ProcFileCommand, p, "in", "out">> : p \in PriorityArgs}
      \cup {<<ProcFileCommand, p, "in", "out", f>> : p \in PriorityArgs, f \in FilterArgs}
      \cup {<<ProcFileCommand, <<"5">>, "in", "out", f, g>> :
              f, g \in {Spelling["nop"], <<"E", "n", "c", "r", "y", "p", "t">>,
                        <<"n", "o", "p", "p">>}}

\* Datagrams that can arrive at the client's socket: the five messages, a
\* status text, and bytes that are not a MessageToClient.
StatusText == Msg("StatusText")
Undecodable == Msg("Undecodable")

Datagrams ==
    {Pending, Processing, RequestError, RequestInitError, StatusText, Undecodable}
        \cup {Concluded(b) : b \in BytePairs}

\* bincode::deserialize::<MessageToClient>
IsMessageToClient(datagram) == datagram.tag \notin {"StatusText", "Undecodable"}

NotExited == -1

\* The process after UnixDatagram::bind of its own socket.
ClientStarted(args) ==
    [pc |-> "build", args |-> args, request |-> <<>>, error |-> <<>>,
     inbox |-> <<>>, received |-> 0, printed |-> <<>>, warned |-> FALSE,
     socket_file |-> TRUE, exit_code |-> NotExited]

\* process::exit(1) inside an unwrap_or_else
Exit1(c) == [c EXCEPT !.pc = "exited", !.exit_code = 1]

\* main: ClientRequest::build on env::args(), then serialize and send_to the
\* server's socket; each failure logs and exits with 1.
client_request ==
    /\ client.pc = "build"
    /\ LET built == ClientRequest_build(client.args, ClientPid)
           consumed == [client EXCEPT !.args = <<>>]
       IN  IF built.tag = "Err"
           THEN client' = Exit1([consumed EXCEPT !.error = <<built.value>>])
           ELSE \E ok \in BOOLEAN :
                   client' =
                      IF ~ok THEN Exit1(consumed)
                      ELSE [consumed EXCEPT
                              !.request = <<built.value>>,
                              !.pc = IF built.value.request = "Status" THEN "status"
                                     ELSE "recv"]
    /\ UNCHANGED <<call, ret, epochs, status_asked, status_log, limits, pc, task_counter,
                   task_pqueue, filters_count, running_tasks, chan, threads, sent,
                   send_failed, requests, popped, nfaults, destination, spins>>

\* A datagram sent to the client's socket arrives there.
Deliver ==
    /\ client.pc \in {"recv", "status"}
    /\ client.received + Len(client.inbox) < MaxDatagrams
    /\ \E datagram \in Datagrams :
          client' = [client EXCEPT !.inbox = Append(@, datagram)]
    /\ UNCHANGED <<call, ret, epochs, status_asked, status_log, limits, pc, task_counter,
                   task_pqueue, filters_count, running_tasks, chan, threads, sent,
                   send_failed, requests, popped, nfaults, destination, spins>>

\* A faulty proc_file_msg: the loop goes on after Pending only.
proc_file_msg_eager ==
    /\ client.pc = "recv"
    /\ client.inbox /= <<>>
    /\ \E ok \in BOOLEAN :
          LET datagram == Head(client.inbox)
              taken == [client EXCEPT !.inbox = Tail(@), !.received = @ + 1]
          IN  client' =
                 IF ~ok THEN Exit1(client)
                 ELSE IF ~IsMessageToClient(datagram)
                 THEN [taken EXCEPT !.warned = TRUE, !.pc = "cleanup"]
                 ELSE [taken EXCEPT
                         !.printed = Append(@, datagram),
                         !.pc = IF datagram = Pending THEN "recv" ELSE "cleanup"]
    /\ UNCHANGED <<call, ret, epochs, status_asked, status_log, limits, pc, task_counter,
                   task_pqueue, filters_count, running_tasks, chan, threads, sent,
                   send_failed, requests, popped, nfaults, destination, spins>>

\* One iteration of the loop of proc_file_msg: recv (an error exits with 1),
\* deserialize (an error warns and breaks), log the message, then continue
\* on Pending or Processing and break on anything else.
proc_file_msg ==
    /\ client.pc = "recv"
    /\ client.inbox /= <<>>
    /\ \E ok \in BOOLEAN :
          LET datagram == Head(client.inbox)
              taken == [client EXCEPT !.inbox = Tail(@), !.received = @ + 1]
          IN  client' =
                 IF ~ok THEN Exit1(client)
                 ELSE IF ~IsMessageToClient(datagram)
                 THEN [taken EXCEPT !.warned = TRUE, !.pc = "cleanup"]
                 ELSE [taken EXCEPT
                         !.printed = Append(@, datagram),
                         !.pc = IF datagram \in {Pending, Processing} THEN "recv"
                                ELSE "cleanup"]
    /\ UNCHANGED <<call, ret, epochs, status_asked, status_log, limits, pc, task_counter,
                   task_pqueue, filters_count, running_tasks, chan, threads, sent,
                   send_failed, requests, popped, nfaults, destination, spins>>

\* status_msg: one recv (an error exits with 1); the datagram is logged when
\* it deserializes as a String, and warned about otherwise.
status_msg_recv ==
    /\ client.pc = "status"
    /\ client.inbox /= <<>>
    /\ \E ok \in BOOLEAN :
          LET datagram == Head(client.inbox)
              taken == [client EXCEPT !.inbox = Tail(@), !.received = @ + 1,
                                      !.pc = "cleanup"]
          IN  client' =
                 IF ~ok THEN Exit1(client)
                 ELSE IF datagram = StatusText
                 THEN [taken EXCEPT !.printed = Append(@, datagram)]
                 ELSE [taken EXCEPT !.warned = TRUE]
    /\ UNCHANGED <<call, ret, epochs, status_asked, status_log, limits, pc, task_counter,
                   task_pqueue, filters_count, running_tasks, chan, threads, sent,
                   send_failed, requests, popped, nfaults, destination, spins>>

\* The end of main: the socket is dropped and its file removed (an error
\* exits with 1), then main returns.
client_cleanup ==
    /\ client.pc = "cleanup"
    /\ \E ok \in BOOLEAN :
          client' =
             IF ~ok THEN Exit1(client)
             ELSE [client EXCEPT !.socket_file = FALSE, !.pc = "exited",
                                 !.exit_code = 0]
    /\ UNCHANGED <<call, ret, epochs, status_asked, status_log, limits, pc, task_counter,
                   task_pqueue, filters_count, running_tasks, chan, threads, sent,
                   send_failed, requests, popped, nfaults, destination, spins>>

InitClient ==
    /\ limits = DefaultCounts
    /\ InitEngine
    /\ call = NoCall
    /\ ret = NotReturned
    /\ client \in {ClientStarted(args) : args \in ArgPool}

NextClient ==
    \/ client_request
    \/ Deliver
    \/ proc_file_msg
    \/ status_msg_recv
    \/ client_cleanup

SpecClient == InitClient /\ [][NextClient]_vars

----------------------------------------------------------------------------
(* The limits file: FiltersConfig::parse, and the start of the server *)

MaxLines == 2

\* The pieces of s between occurrences of the character sep, empty pieces
\* included; piece is the one being read.
RECURSIVE Split(_, _, _)
Split(s, sep, piece) ==
    IF s = <<>> THEN <<piece>>
    ELSE IF Head(s) = sep THEN <<piece>> \o Split(Tail(s), sep, <<>>)
    ELSE Split(Tail(s), sep, Append(piece, Head(s)))

IsNonEmpty(piece) == piece /= <<>>

\* str::lines: the text is cut at every "\n"; a last line that is empty is
\* not a line.
lines(s) ==
    LET pieces == Split(s, "\n", <<>>)
    IN  IF pieces[Len(pieces)] = <<>> THEN SubSeq(pieces, 1, Len(pieces) - 1)
        ELSE pieces

\* str::split_whitespace, for lines whose only whitespace is the space.
split_whitespace(l) == SelectSeq(Split(l, " ", <<>>), IsNonEmpty)

\* A faulty set_limit: the name is matched whatever its letter case.
set_limit_any_case(conf, filter, count) ==
    IF \E f \in Filters : Spelling[f] = to_lowercase(filter)
    THEN [conf EXCEPT ![CHOOSE f \in Filters : Spelling[f] = to_lowercase(filter)] = count]
    ELSE conf

\* The `match filter` of parse: the limit of the filter named is set, and
\* any other first word changes nothing.
set_limit(conf, filter, count) ==
    IF \E f \in Filters : Spelling[f] = filter
    THEN [conf EXCEPT ![CHOOSE f \in Filters : Spelling[f] = filter] = count]
    ELSE conf

\* A faulty parse_line: a line that cannot be read is skipped.
parse_line_skipping(conf, l) ==
    LET words == split_whitespace(l)
    IN  IF Len(words) < 2 \/ parse_usize(trim(words[2])).tag = "Err" THEN Ok(conf)
        ELSE Ok(set_limit(conf, words[1], parse_usize(trim(words[2])).value))

\* The body of the loop of parse for one line: the first two words are
\* taken, the second is parsed, and only then is the first looked at.
parse_line(conf, l) ==
    LET words == split_whitespace(l)
    IN  IF Len(words) < 2 THEN Err([error |-> "LineParseError", of |-> <<>>])
        ELSE LET count == parse_usize(trim(words[2]))
             IN  IF count.tag = "Err"
                 THEN Err([error |-> "FilterLimitParseError", of |-> words[1]])
                 ELSE Ok(set_limit(conf, words[1], count.value))

RECURSIVE parse_lines(_, _)
parse_lines(conf, ls) ==
    IF ls = <<>> THEN Ok(conf)
    ELSE LET parsed == parse_line(conf, Head(ls))
         IN  IF parsed.tag = "Err" THEN parsed ELSE parse_lines(parsed.value, Tail(ls))

\* FiltersConfig::parse
FiltersConfig_parse(s) == parse_lines(DefaultCounts, lines(s))

\* First words that can stand on a line of the file: two filter names, a
\* name in upper case and a word that is no name.
ConfigNames ==
    {Spelling["nop"], Spelling["encrypt"], <<"N", "O", "P">>, <<"n", "o", "p", "p">>}

\* Second words: a count, and a word that is no integer.
ConfigCounts == {<<"2">>, <<"2", "c">>}

\* The lines of a file, each as the words written on it.
ConfigLines ==
    {<<>>, <<Spelling["nop"]>>, <<<<"n", "o", "p", "p">>>>}
      \cup {<<name, count>> : name \in ConfigNames, count \in ConfigCounts}
      \cup {<<Spelling["nop"], <<"1", "0">>>>, <<Spelling["nop"], <<"+", "1">>>>,
            <<Spelling["encrypt"], <<"-", "1">>>>, <<Spelling["encrypt"], <<"0">>>>,
            <<Spelling["nop"], <<"2">>, Spelling["encrypt"]>>}

\* The words of a line written out, a space before each word but the first.
RECURSIVE WriteLine(_)
WriteLine(words) ==
    IF words = <<>> THEN <<>>
    ELSE IF Len(words) = 1 THEN words[1]
    ELSE words[1] \o <<" ">> \o WriteLine(Tail(words))

\* The lines written out as a file: every line after the first is indented,
\* and lines are separated by "\n".
RECURSIVE WriteFile(_)
WriteFile(written) ==
    IF written = <<>> THEN <<>>
    ELSE IF Len(written) = 1 THEN WriteLine(written[1])
    ELSE WriteLine(written[1]) \o <<"\n", " ", " ">> \o WriteFile(Tail(written))

\* Whether "\n" may, or must, follow the last line: a file without lines
\* has none, and a last line without words is only there if terminated.
Terminators(written) ==
    IF written = <<>> THEN {<<>>}
    ELSE IF written[Len(written)] = <<>> THEN {<<"\n">>}
    ELSE {<<>>, <<"\n">>}

\* The files the server is started with: what is written on each line, and
\* the text of the file.
ConfigFiles ==
    {[written |-> w[1], text |-> WriteFile(w[1]) \o w[2]] :
        w \in UNION {{<<ls, nl>> : nl \in Terminators(ls)} :
                        ls \in UNION {[1..n -> ConfigLines] : n \in 0..MaxLines}}}

\* The file of the call, while the server starts.
ConfigCall(file) ==
    [fn |-> "FiltersConfig::parse", written |-> file.written, text |-> file.text]

\* main before the configuration is read: nothing of the server exists yet.
InitConfig ==
    /\ pc = "start"
    /\ limits = DefaultCounts
    /\ task_counter = 0
    /\ task_pqueue = <<>>
    /\ filters_count = DefaultCounts
    /\ running_tasks = <<>>
    /\ chan = <<>>
    /\ threads = <<>>
    /\ sent = [p \in Pids |-> <<>>]
    /\ send_failed = {}
    /\ requests = <<>>
    /\ popped = <<>>
    /\ nfaults = 0
    /\ destination = NoDestination
    /\ spins = 0
    /\ epochs = <<>>
    /\ status_asked = <<>>
    /\ status_log = [p \in Pids |-> <<>>]
    /\ client = NoClient
    /\ call \in {ConfigCall(file) : file \in ConfigFiles}
    /\ ret = NotReturned

\* main: ServerConfig::build parses the file; on Err the process exits with
\* 1, on Ok the limits are fixed and main goes on to bind the socket, start
\* the listener and enter its loop.
server_config_build ==
    /\ pc = "start"
    /\ LET config == FiltersConfig_parse(call.text)
       IN  /\ ret' = Returned(config)
           /\ IF config.tag = "Err"
              THEN /\ pc' = "exited"
                   /\ UNCHANGED limits
              ELSE /\ pc' = "recv"
                   /\ limits' = config.value
    /\ UNCHANGED <<client, call, epochs, status_asked, status_log, task_counter,
                   task_pqueue, filters_count, running_tasks, chan, threads, sent,
                   send_failed, requests, popped, nfaults, destination, spins>>

\* The listener thread, which main spawns after the configuration is read,
\* reads its first request.
udsock_listen_started ==
    /\ pc \notin {"start", "exited"}
    /\ requests = <<>>
    /\ Listen

NextConfig ==
    \/ server_config_build
    \/ udsock_listen_started

SpecConfig == InitConfig /\ [][NextConfig]_vars

----------------------------------------------------------------------------
(* Filter names: Display, the paths of the filter programs, and FromStr *)

MaxFilters == 2

\* A faulty Display: the name is written with a capital first letter.
Filter_fmt_capitalized(f) ==
    CASE f = "nop" -> <<"N", "o", "p">>
      [] f = "bcompress" -> <<"B", "c", "o", "m", "p", "r", "e", "s", "s">>
      [] f = "bdecompress" -> <<"B", "d", "e", "c", "o", "m", "p", "r", "e", "s", "s">>
      [] f = "gcompress" -> <<"G", "c", "o", "m", "p", "r", "e", "s", "s">>
      [] f = "gdecompress" -> <<"G", "d", "e", "c", "o", "m", "p", "r", "e", "s", "s">>
      [] f = "encrypt" -> <<"E", "n", "c", "r", "y", "p", "t">>
      [] f = "decrypt" -> <<"D", "e", "c", "r", "y", "p", "t">>

\* impl Display for Filter: the string each variant writes.
Filter_fmt(f) ==
    CASE f = "nop" -> <<"n", "o", "p">>
      [] f = "bcompress" -> <<"b", "c", "o", "m", "p", "r", "e", "s", "s">>
      [] f = "bdecompress" -> <<"b", "d", "e", "c", "o", "m", "p", "r", "e", "s", "s">>
      [] f = "gcompress" -> <<"g", "c", "o", "m", "p", "r", "e", "s", "s">>
      [] f = "gdecompress" -> <<"g", "d", "e", "c", "o", "m", "p", "r", "e", "s", "s">>
      [] f = "encrypt" -> <<"e", "n", "c", "r", "y", "p", "t">>
      [] f = "decrypt" -> <<"d", "e", "c", "r", "y", "p", "t">>

\* PathBuf::join of a directory and a relative name: a separator is put
\* between them unless the directory ends with one.
PathBuf_join(path, name) ==
    IF path = <<>> \/ path[Len(path)] = "/" THEN path \o name
    ELSE path \o <<"/">> \o name

\* The first statement of start_pipeline_monitor: the path of the program
\* of each filter of the task, in order.
transfs_execs(transformations, transformations_path) ==
    [i \in 1..Len(transformations) |->
        PathBuf_join(transformations_path, Filter_fmt(transformations[i]))]

\* Filter sequences of tasks, and directories the server is started with.
FilterSequences == UNION {[1..n -> Filters] : n \in 0..MaxFilters}

TransformationsPaths == {<<"b", "i", "n">>, <<"b", "i", "n", "/">>}

InitFilters ==
    /\ client = NoClient
    /\ limits = DefaultCounts
    /\ InitEngine
    /\ call \in {[fn |-> "transfs_execs", transformations |-> fs,
                  transformations_path |-> path] :
                    fs \in FilterSequences, path \in TransformationsPaths}
    /\ ret = NotReturned

\* Each filter of the task is displayed, its program is located, and the
\* displayed name is parsed back.
ApplyFilterNames ==
    /\ call.fn = "transfs_execs"
    /\ ret = NotReturned
    /\ ret' = Returned(
          [displayed |-> [i \in 1..Len(call.transformations) |->
                             Filter_fmt(call.transformations[i])],
           execs |-> transfs_execs(call.transformations, call.transformations_path),
           parsed |-> [i \in 1..Len(call.transformations) |->
                          from_str(Filter_fmt(call.transformations[i]))]])
    /\ UNCHANGED <<client, call, epochs, status_asked, status_log, limits, pc, task_counter,
                   task_pqueue, filters_count, running_tasks, chan, threads, sent,
                   send_failed, requests, popped, nfaults, destination, spins>>

SpecFilters == InitFilters /\ [][ApplyFilterNames]_vars

----------------------------------------------------------------------------
(* What the claims speak of *)

\* The admission rule of the specification: running plus the request's
\* occurrences stays within the limit, filter by filter.
Admissible(running, cfg, req) ==
    \A f \in Filters : running[f] + Occurrences(req, f) <= cfg[f]

\* Occurrences of f in the filter sequences of the tasks in the worker table.
RECURSIVE TableOccurrences(_, _)
TableOccurrences(tids, f) ==
    IF tids = {} THEN 0
    ELSE LET tid == CHOOSE t \in tids : TRUE
         IN  Occurrences(running_tasks[tid].task.transformations, f)
             + TableOccurrences(tids \ {tid}, f)

\* The task asks of no filter more than that filter's limit.
Fits(task) ==
    \A f \in Filters : Occurrences(task.transformations, f) <= limits[f]

\* The queue is non-empty and its head is not admissible.
HeadBlocked ==
    /\ task_pqueue /= <<>>
    /\ ~Admissible(filters_count, limits, task_pqueue[1].transformations)

IsPrefix(s, t) == Len(s) <= Len(t) /\ \A i \in 1..Len(s) : s[i] = t[i]

\* The message sequences a client may observe for one request.
AllowedSequences ==
    {<<Pending, Processing, Concluded(b)>> : b \in BytePairs}
        \cup {<<Pending, Processing, RequestError>>, <<Pending, RequestInitError>>}

\* The client has made exactly one request and every send to it succeeded.
SingleRequest(pid) ==
    /\ Cardinality({i \in 1..Len(requests) : requests[i].client_pid = pid}) = 1
    /\ pid \notin send_failed

\* A completion event of worker tid waits in the channel.
InFlight(tid) ==
    \E i \in 1..Len(chan) : chan[i].kind = "Monitor" /\ chan[i].thread = tid

\* Nothing more will be sent to the client: its worker has ended, no
\* completion of that worker is in flight, and the coordinator is idle.
Settled(pid) ==
    /\ pc = "recv"
    /\ \E tid \in 1..Len(threads) :
          /\ threads[tid].task.client_pid = pid
          /\ threads[tid].state /= "running"
          /\ ~InFlight(tid)

\* The task was requested exactly once.
RequestedOnce(task) ==
    Cardinality({i \in 1..Len(requests) : requests[i] = task}) = 1

\* Its place in the order of arrival.
EnqueuedAt(task) == CHOOSE i \in 1..Len(requests) : requests[i] = task

\* Nothing is in progress: the coordinator waits, the channel is empty and
\* no worker thread is running.
Quiescent ==
    /\ pc = "recv"
    /\ chan = <<>>
    /\ \A tid \in 1..Len(threads) : threads[tid].state /= "running"

TerminalMessages ==
    {Concluded(b) : b \in BytePairs} \cup {RequestError, RequestInitError}

\* Status requests the coordinator has taken off the channel.
StatusHandled == Len(status_asked) - StatusInChan

\* The step takes a Status request off the channel.
StatusStep == StatusInChan' < StatusInChan

\* The task line the status format prescribes for a worker record.
ExpectedTaskLine(monitor) ==
    <<"task #", ToString(monitor.task_number), ": proc-file ",
      ToString(monitor.task.priority), " ", monitor.task.input, " ",
      monitor.task.output>>
        \o [i \in 1..(2 * Len(monitor.task.transformations)) |->
               IF i % 2 = 1 THEN " " ELSE monitor.task.transformations[i \div 2]]
        \o <<"\n">>

\* The task lines of the records tids, by ascending task number.
RECURSIVE ExpectedTaskLines(_)
ExpectedTaskLines(tids) ==
    IF tids = {} THEN <<>>
    ELSE LET tid == CHOOSE t \in tids :
                        \A u \in tids :
                            running_tasks[t].task_number <= running_tasks[u].task_number
         IN  ExpectedTaskLine(running_tasks[tid]) \o ExpectedTaskLines(tids \ {tid})

\* The lines of the filters FilterOrder[k..7]: running count, then limit.
RECURSIVE ExpectedFilterLines(_)
ExpectedFilterLines(k) ==
    IF k > Len(FilterOrder) THEN <<>>
    ELSE <<"transformation ", FilterOrder[k], ": ", ToString(filters_count[FilterOrder[k]]),
           "/", ToString(limits[FilterOrder[k]]), " (running/max)", "\n">>
             \o ExpectedFilterLines(k + 1)

ExpectedStatus == ExpectedTaskLines(DOMAIN running_tasks) \o ExpectedFilterLines(1)

\* Number of task lines in a status text.
TaskLines(text) == Cardinality({i \in 1..Len(text) : text[i] = "task #"})

\* The step takes a ProcFile request off the channel.
ProcFileStep ==
    /\ pc = "recv"
    /\ chan /= <<>>
    /\ Head(chan).kind = "Client"
    /\ chan' = Tail(chan)

\* The step takes the completion of a known worker off the channel.
CompletionStep ==
    /\ pc = "recv"
    /\ chan /= <<>>
    /\ Head(chan).kind = "Monitor"
    /\ Head(chan).thread \in DOMAIN running_tasks
    /\ chan' = Tail(chan)

\* What the claim says mon_res_to_cl_msg returns for a result.
ExpectedTerminal(result) ==
    CASE result.tag = "Ok" -> Concluded(result.bytes)
      [] result.tag \in {"InputFileError", "OutputFileError", "NoTransformationsGiven"}
            -> RequestInitError
      [] result.tag \in {"PipelineFailure", "PipelineExitStatusError",
                         "InputFileMetadataError", "OutputFileMetadataError",
                         "MpscSenderError"}
            -> RequestError

\* The step makes a send to a client that fails: the failure is counted and
\* no datagram is delivered.
SendFailedStep ==
    /\ nfaults' > nfaults
    /\ sent' = sent
    /\ status_log' = status_log

\* The step takes off the channel the completion of a worker that has no
\* record in the running-worker table.
UnknownWorkerStep ==
    /\ pc = "recv"
    /\ chan /= <<>>
    /\ Head(chan).kind = "Monitor"
    /\ Head(chan).thread \notin DOMAIN running_tasks
    /\ chan' = Tail(chan)

\* The client has sent a proc-file request.
ProcFileClient ==
    /\ client.pc \in {"recv", "cleanup", "exited"}
    /\ client.request /= <<>>
    /\ client.request[1].request = "ProcFile"

\* The client takes a datagram that is a MessageToClient out of its socket.
ClientReceiveStep ==
    /\ client.pc = "recv"
    /\ client'.received = client.received + 1
    /\ IsMessageToClient(Head(client.inbox))

\* Where the receive loop stands, given what has been printed: still
\* receiving with nothing terminal printed, or past the loop with a terminal
\* message printed last (or after a datagram that was no message).
ClientLoopPosition ==
    ProcFileClient =>
        /\ client.pc = "recv" =>
              \A i \in 1..Len(client.printed) :
                  client.printed[i] \in {Pending, Processing}
        /\ (client.pc = "cleanup" \/ client.exit_code = 0) =>
              \/ client.warned
              \/ /\ client.printed /= <<>>
                 /\ client.printed[Len(client.printed)] \in TerminalMessages
                 /\ \A i \in 1..(Len(client.printed) - 1) :
                        client.printed[i] \in {Pending, Processing}

IsClientRequest(message) == message.kind /= "Monitor"

\* The client requests waiting in the channel, in channel order.
ClientRequests(channel) == SelectSeq(channel, IsClientRequest)

\* The step is one of a worker thread: a thread ends.
WorkerStep ==
    /\ Len(threads') = Len(threads)
    /\ threads' /= threads

\* The step is one of the listener thread: a request is forwarded.
ListenerStep ==
    \/ requests' /= requests
    \/ status_asked' /= status_asked

\* The step is one of the coordinator: it takes a message off the channel
\* or goes round its drain loop.
CoordinatorStep ==
    \/ pc = "recv" /\ chan /= <<>> /\ chan' = Tail(chan)
    \/ pc \in {"drain", "steal"} /\ chan' = chan

\* The word writes a non-negative integer: digits, with or without a "+".
IsCount(word) ==
    LET digits == IF Len(word) > 1 /\ word[1] = "+" THEN Tail(word) ELSE word
    IN  digits /= <<>> /\ \A i \in 1..Len(digits) : IsDigit(digits[i])

CountWritten(word) ==
    DecimalValue(IF word[1] = "+" THEN Tail(word) ELSE word)

\* The line has a first word and a count.
WellFormed(line) == Len(line) >= 2 /\ IsCount(line[2])

\* The limits a file of well-formed lines asks for: for each filter the
\* count on the last line that names it, and 0 when no line does.
ExpectedLimits(written) ==
    [f \in Filters |->
        LET naming == {i \in 1..Len(written) : written[i][1] = Spelling[f]}
        IN  IF naming = {} THEN 0
            ELSE CountWritten(written[CHOOSE i \in naming :
                                          \A j \in naming : j <= i][2])]

\* The error the first line that is not well-formed asks for.
ExpectedConfigError(written) ==
    LET first == CHOOSE i \in 1..Len(written) :
                    /\ ~WellFormed(written[i])
                    /\ \A j \in 1..(i - 1) : WellFormed(written[j])
    IN  IF Len(written[first]) < 2 THEN "LineParseError" ELSE "FilterLimitParseError"

\* FiltersConfig::parse has returned for the file the server was started with.
ConfigParsed == call.fn = "FiltersConfig::parse" /\ ret /= NotReturned

\* The word is the name of filter f in some letter case.
NamesFilter(word, f) ==
    /\ Len(word) = Len(Spelling[f])
    /\ \A i \in 1..Len(word) :
          \E k \in 1..Len(Lowercase) :
              /\ Lowercase[k] = Spelling[f][i]
              /\ word[i] \in {Lowercase[k], Uppercase[k]}

\* The command line is a proc-file request with a priority, two paths and
\* at least one filter word.
FilterRequest(args) ==
    /\ Len(args) >= 5
    /\ args[1] = ProcFileCommand
    /\ IsCount(trim(args[2]))

\* The client's main builds its request from the command line.
ClientBuildStep == client.pc = "build" /\ client'.pc /= "build"

\* The first defect of a command line in the order the claim gives, "none"
\* when it has none of them.
ExpectedBuildError(args) ==
    IF args = <<>> THEN "NoCommandProvided"
    ELSE IF args[1] = StatusCommand THEN "none"
    ELSE IF args[1] /= ProcFileCommand THEN "IncorrectCommandProvided"
    ELSE IF Len(args) < 2 THEN "NoPriorityProvided"
    ELSE IF ~IsCount(trim(args[2])) THEN "InvalidPriority"
    ELSE IF Len(args) < 4 THEN "InvalidInputOutputPaths"
    ELSE IF Len(args) < 5 THEN "NoFiltersProvided"
    ELSE "none"

\* Every filter word of a proc-file command line names one of the filters.
FilterWordsValid(args) ==
    \A i \in 5..Len(args) : \E f \in Filters : NamesFilter(args[i], f)

\* The task a proc-file command line without defect asks for.
ExpectedTask(args, pid) ==
    [client_pid |-> pid,
     priority |-> CountWritten(trim(args[2])),
     input |-> args[3],
     output |-> args[4],
     transformations |->
        [i \in 1..(Len(args) - 4) |->
            CHOOSE f \in Filters : NamesFilter(args[i + 4], f)]]

\* The step admits a task: a record enters the running-worker table.
AdmissionStep == DOMAIN running_tasks' \ DOMAIN running_tasks /= {}

\* The task of the record that entered.
AdmittedTask ==
    running_tasks'[CHOOSE tid \in DOMAIN running_tasks' : tid \notin DOMAIN running_tasks].task

\* The task whose completion the step handles.
CompletedTask == running_tasks[Head(chan).thread].task

\* The admission predicate was evaluated on the head of the queue and
\* returned false: the drain loop ends with the queue as it was.
RefusalStep == pc = "drain" /\ HeadBlocked /\ pc' = "recv"

\* How often task is in the sequence of tasks s.
Count(s, task) == Cardinality({i \in 1..Len(s) : s[i] = task})

\* Records of the running-worker table whose task is task.
Running(task) == {tid \in DOMAIN running_tasks : running_tasks[tid].task = task}

\* Worker threads ever spawned for task.
Spawned(task) == {tid \in 1..Len(threads) : threads[tid].task = task}

\* The request for task has been taken off the channel.
Handled(task) ==
    /\ task \in Range(requests)
    /\ \A i \in 1..Len(chan) : chan[i].kind = "Client" => chan[i].task /= task

\* A terminal message was emitted for task: the completion of a worker
\* spawned for it has been handled.
TerminalEmitted(task) == Spawned(task) \ DOMAIN running_tasks /= {}

\* process_task returns the error of Monitor::build: a task was taken off
\* the queue and sent Processing, and no worker thread was spawned.
SpawnFailedStep ==
    /\ Len(popped') = Len(popped) + 1
    /\ LET pid == popped'[Len(popped')].client_pid
       IN  sent' = [sent EXCEPT ![pid] = Append(@, Processing)]
    /\ threads' = threads

\* The step delivers message to the socket of client pid.
Delivers(pid, message) == sent' = [sent EXCEPT ![pid] = Append(@, message)]

\* The client pid of the task the step's message is about: the task of the
\* request handled, of the task taken off the queue, or of the worker whose
\* completion is handled.
Addressee ==
    IF Len(popped') > Len(popped) THEN popped'[Len(popped')].client_pid
    ELSE IF Head(chan).kind = "Client" THEN Head(chan).task.client_pid
    ELSE threads[Head(chan).thread].task.client_pid

\* Every character of the word is a lower-case letter.
IsLowercaseWord(word) ==
    \A i \in 1..Len(word) : \E k \in 1..Len(Lowercase) : Lowercase[k] = word[i]

\* The last component of a path.
FileName(path) ==
    LET pieces == Split(path, "/", <<>>) IN pieces[Len(pieces)]

\* The directory of a path: what stands before the last separator.
Directory(path) == SubSeq(path, 1, Len(path) - Len(FileName(path)) - 1)

\* The directory without a separator at its end.
Bare(path) ==
    IF path /= <<>> /\ path[Len(path)] = "/" THEN SubSeq(path, 1, Len(path) - 1)
    ELSE path

----------------------------------------------------------------------------
(* Claims *)

\* C1: in every reachable state the running count of each of the seven
\* filters is at most the configured limit of that filter.
C1_LimitsRespected == \A f \in Filters : filters_count[f] <= limits[f]

\* C2: can_run_pipeline(running, limits, requested) is true exactly when, for
\* every filter, running plus the occurrences in requested is within the limit.
C2_AdmissionIsComponentwise ==
    (call.fn = "can_run_pipeline" /\ ret /= NotReturned)
        => (ret[1] <=> Admissible(call.running, call.server_cfg, call.client_req))

\* C3: whenever the coordinator has finished handling an event and waits for
\* the next one, the running counts equal, filter by filter, the occurrences
\* in the filter sequences of the tasks in the running-worker table.
C3_AccountingConservation ==
    pc = "recv" =>
        \A f \in Filters :
            filters_count[f] = TableOccurrences(DOMAIN running_tasks, f)

\* C4: in a step taken while the head A of the queue is not admissible, no
\* queued task B of strictly lower priority is popped, is sent Processing or
\* is given a worker.
C4_StrictPriority ==
    [][\A i \in 1..Len(task_pqueue) :
          (HeadBlocked /\ task_pqueue[i].priority < task_pqueue[1].priority) =>
              LET B == task_pqueue[i]
              IN  /\ Len(popped') > Len(popped) => popped'[Len(popped')] /= B
                  /\ Len(threads') > Len(threads) =>
                        threads'[Len(threads')].task /= B
                  /\ Len(sent'[B.client_pid]) > Len(sent[B.client_pid]) =>
                        sent'[B.client_pid][Len(sent'[B.client_pid])] /= Processing
                  /\ \E j \in 1..Len(task_pqueue') : task_pqueue'[j] = B]_vars

\* The drain loop looks at a blocked head while a task of lower priority that
\* would fit waits behind it.
C4_Witness ==
    /\ pc = "drain"
    /\ HeadBlocked
    /\ ~CanPop
    /\ \E i \in 1..Len(task_pqueue) :
          /\ task_pqueue[i].priority < task_pqueue[1].priority
          /\ can_run_pipeline(filters_count, limits, task_pqueue[i].transformations)
          /\ Admissible(filters_count, limits, task_pqueue[i].transformations)

\* C5: a task that asks of some filter more than that filter's limit is never
\* taken off the queue for execution.
C5_OversizedNeverAdmitted == \A i \in 1..Len(popped) : Fits(popped[i])

\* C6: for a client with a single request and no failed send, the messages
\* sent so far are a prefix of one of the allowed sequences, and once nothing
\* more can be sent for the request they are exactly one of them.
C6_MessageOrdering ==
    \A pid \in Pids :
        SingleRequest(pid) =>
            /\ \E s \in AllowedSequences : IsPrefix(sent[pid], s)
            /\ Settled(pid) => sent[pid] \in AllowedSequences

\* C7: a worker that has ended has posted exactly one completion event.
C7_ExactlyOneCompletion ==
    \A tid \in 1..Len(threads) :
        threads[tid].state /= "running" => threads[tid].posted = 1

\* C8: when a worker ended before execution, its completion is in flight or
\* has been handled: the record is out of the table and, unless the send
\* failed, the last message to the client is RequestInitError.
C8_InitFailureReported ==
    \A tid \in 1..Len(threads) :
        threads[tid].state = "init_error" =>
            \/ InFlight(tid)
            \/ /\ tid \notin DOMAIN running_tasks
               /\ LET pid == threads[tid].task.client_pid
                  IN  \/ pid \in send_failed
                      \/ \E i \in 1..Len(sent[pid]) : sent[pid][i] = RequestInitError

\* C9: the drain loop of bin/sdstored.rs terminates: each iteration pops the
\* head or leaves the loop, it never goes round with nothing changed.
C9_DrainTerminates == spins = 0

\* C10: when the coordinator waits for its next event the queue is empty or
\* its head is not admissible, and a task is taken off the queue only if it
\* was admissible under the counts of that moment.
C10_AdmissionRoundTrip ==
    [][/\ (pc' = "recv" /\ task_pqueue' /= <<>>) =>
              ~Admissible(filters_count', limits', task_pqueue'[1].transformations)
       /\ Len(popped') > Len(popped) =>
              Admissible(filters_count, limits, popped'[Len(popped')].transformations)]_vars

\* C11: of two tasks of equal priority admitted with no worker completion
\* handled between the two admissions, the one enqueued first is admitted
\* first.
C11_FifoTieBreak ==
    \A i, j \in 1..Len(popped) :
        (/\ i < j
         /\ popped[i].priority = popped[j].priority
         /\ epochs[i] = epochs[j]
         /\ RequestedOnce(popped[i])
         /\ RequestedOnce(popped[j]))
            => EnqueuedAt(popped[i]) < EnqueuedAt(popped[j])

\* C12: when a task is taken off the queue for admission, no task left in
\* the queue has a strictly higher priority.
C12_HighestPriorityFirst ==
    [][Len(popped') > Len(popped) =>
          \A k \in 1..Len(task_pqueue') :
              task_pqueue'[k].priority <= popped'[Len(popped')].priority]_vars

\* A task of higher priority has just been admitted ahead of a queued task of
\* lower priority that arrived before it.
C12_Witness ==
    /\ pc = "drain"
    /\ popped /= <<>>
    /\ \E k \in 1..Len(task_pqueue) :
          /\ task_pqueue[k].priority < popped[Len(popped)].priority
          /\ \E i, j \in 1..Len(requests) :
                /\ i < j
                /\ requests[i] = task_pqueue[k]
                /\ requests[j] = popped[Len(popped)]
                /\ RequestedOnce(task_pqueue[k])

\* C13: when nothing is in progress any more, no send or spawn has failed
\* and every requested task fits the limits on its own, every client that
\* made a single request has been sent Processing and a terminal message.
C13_EveryTaskServed ==
    (/\ Quiescent
     /\ nfaults = 0
     /\ \A i \in 1..Len(requests) : Fits(requests[i]))
        => \A pid \in Pids :
              SingleRequest(pid) =>
                  /\ \E i \in 1..Len(sent[pid]) : sent[pid][i] = Processing
                  /\ \E i \in 1..Len(sent[pid]) : sent[pid][i] \in TerminalMessages

\* C14: every Status request the coordinator has taken off the channel was
\* answered with exactly one status text to the client that asked (unless
\* the send to that client failed).
C14_StatusAnswered ==
    \A pid \in Pids :
        pid \notin send_failed =>
            Len(status_log[pid]) =
                Cardinality({i \in 1..StatusHandled : status_asked[i] = pid})

\* C15: the step that handles a Status request leaves the pending queue, the
\* running counts, the running-worker table and the task counter unchanged.
C15_StatusFrame ==
    [][StatusStep =>
          UNCHANGED <<task_pqueue, filters_count, running_tasks, task_counter>>]_vars

\* A status text listing a running task was sent while another task waited.
C15_Witness ==
    /\ task_pqueue /= <<>>
    /\ running_tasks /= <<>>
    /\ task_counter > 0
    /\ \E pid \in Pids :
          /\ status_log[pid] /= <<>>
          /\ status_log[pid][1][1] = "task #"

C17_StatusDeterminism ==
    (pc = "recv" /\ chan /= <<>> /\ Head(chan).kind = "Status") =>
        \A o1, o2 \in IterationOrders(running_tasks) :
            status_msg(running_tasks, filters_count, limits, o1)
                = status_msg(running_tasks, filters_count, limits, o2)

\* A Status request is about to be handled with two workers in the table.
C17_Witness ==
    /\ pc = "recv"
    /\ chan /= <<>>
    /\ Head(chan).kind = "Status"
    /\ Cardinality(DOMAIN running_tasks) >= 2

\* C18: the step that handles a ProcFile request puts the task into the
\* queue, which stays ordered by priority, sends Pending to the requesting
\* client unless the send fails, admits nothing and leaves the running
\* counts, the running-worker table and the task counter unchanged.
C18_ProcFileFrame ==
    [][ProcFileStep =>
          LET task == Head(chan).task
          IN  /\ Range(task_pqueue') = Range(task_pqueue) \cup {task}
              /\ \A i, j \in 1..Len(task_pqueue') :
                    i < j => task_pqueue'[i].priority >= task_pqueue'[j].priority
              /\ \/ sent' = [sent EXCEPT ![task.client_pid] = Append(@, Pending)]
                 \/ sent' = sent /\ nfaults' > nfaults
              /\ UNCHANGED <<filters_count, running_tasks, task_counter, popped,
                             threads>>]_vars

\* The last request has just been queued and answered with Pending while a
\* worker runs.
C18_Witness ==
    /\ pc = "drain"
    /\ requests /= <<>>
    /\ running_tasks /= <<>>
    /\ LET task == requests[Len(requests)]
       IN  /\ task \in Range(task_pqueue)
           /\ sent[task.client_pid] /= <<>>
           /\ sent[task.client_pid][Len(sent[task.client_pid])] = Pending

\* C19: mon_res_to_cl_msg maps Ok to Concluded with the same byte counts,
\* the three failures before execution to RequestInitError and every other
\* failure to RequestError.
C19_TerminalMessage ==
    (call.fn = "mon_res_to_cl_msg" /\ ret /= NotReturned)
        => ret[1] = ExpectedTerminal(call.result)

\* The function has returned for a failure before execution.
C19_Witness ==
    /\ call.fn = "mon_res_to_cl_msg"
    /\ ret /= NotReturned
    /\ call.result.tag = "NoTransformationsGiven"

\* C20: what each of the three handlers does to the queue, the running
\* counts, the running-worker table and the task counter does not depend on
\* whether its send to the client succeeded.
C20_SendFailureFrame ==
    [][/\ ProcFileStep =>
              /\ Head(chan).task \in Range(task_pqueue')
              /\ UNCHANGED <<filters_count, running_tasks, task_counter>>
       /\ Len(popped') > Len(popped) =>
              LET task == popped'[Len(popped')]
              IN  /\ filters_count' = add_assign(filters_count, task.transformations)
                  /\ task_counter' = task_counter + 1
       /\ CompletionStep =>
              LET thread == Head(chan).thread
              IN  /\ thread \notin DOMAIN running_tasks'
                  /\ filters_count' =
                        sub_assign(filters_count,
                                   running_tasks[thread].task.transformations)
                  /\ UNCHANGED <<task_pqueue, task_counter>>]_vars

\* C21: a step in which a send to a client fails does not stop the
\* coordinator: it is not panicked afterwards and goes on with its loop.
C21_SendFailureNotFatal ==
    [][SendFailedStep => pc' /= "panicked"]_vars

\* C22: the step that handles the completion of a worker not present in the
\* running-worker table stops the coordinator, subtracts no filter counts
\* and sends no message to any client.
C22_UnknownWorkerFatal ==
    [][UnknownWorkerStep =>
          /\ pc' = "panicked"
          /\ UNCHANGED <<filters_count, running_tasks, sent, status_log>>]_vars

\* The coordinator has stopped on such a completion while a worker was
\* running and its counts were held.
C22_Witness ==
    /\ pc = "panicked"
    /\ running_tasks /= <<>>
    /\ filters_count /= DefaultCounts

\* C23: the task counter never decreases and a step that queues a request
\* leaves it unchanged; a record that enters the running-worker table has a
\* number not below the old counter and below the new one, so it exceeds
\* the number of every task admitted earlier; the numbers in the table are
\* pairwise distinct.
C23_TaskNumbers ==
    [][/\ task_counter' >= task_counter
       /\ ProcFileStep => task_counter' = task_counter
       /\ \A tid \in DOMAIN running_tasks' \ DOMAIN running_tasks :
              /\ running_tasks'[tid].task_number >= task_counter
              /\ running_tasks'[tid].task_number < task_counter'
              /\ \A old \in DOMAIN running_tasks :
                    running_tasks[old].task_number < running_tasks'[tid].task_number
       /\ \A t1, t2 \in DOMAIN running_tasks' :
              t1 /= t2 =>
                  running_tasks'[t1].task_number /= running_tasks'[t2].task_number]_vars

\* Two tasks are running, numbered in the order of their admission, while a
\* third request has been queued.
C23_Witness ==
    /\ task_pqueue /= <<>>
    /\ task_counter >= 2
    /\ \E t1, t2 \in DOMAIN running_tasks :
          /\ t1 < t2
          /\ running_tasks[t1].task_number < running_tasks[t2].task_number

C25_SocketReadOrder ==
    [][LET before == ClientRequests(chan)
           after == ClientRequests(chan')
       IN  \/ after = before
           \/ /\ Len(after) = Len(before) + 1
              /\ chan' = Append(chan, after[Len(after)])
              /\ after = Append(before, after[Len(after)])
              /\ \/ requests' = Append(requests, after[Len(after)].task)
                 \/ Len(status_asked') = Len(status_asked) + 1
           \/ /\ before /= <<>>
              /\ pc = "recv"
              /\ Head(chan) = Head(before)
              /\ after = Tail(before)]_vars

\* A request has been handled while a worker completion waits in the
\* channel between two later requests.
C25_Witness ==
    /\ Len(requests) + Len(status_asked) > Len(ClientRequests(chan))
    /\ \E i, j, k \in 1..Len(chan) :
          /\ i < j
          /\ j < k
          /\ IsClientRequest(chan[i])
          /\ ~IsClientRequest(chan[j])
          /\ IsClientRequest(chan[k])

\* C26: a step of a worker or of the listener leaves the pending queue, the
\* running counts, the running-worker table and the task counter unchanged;
\* these change only in steps of the coordinator; and all a worker step does
\* outside its own thread is to post at most one completion event.
C26_OnlyCoordinatorMutates ==
    [][/\ (WorkerStep \/ ListenerStep) =>
              UNCHANGED <<task_pqueue, filters_count, running_tasks, task_counter>>
       /\ <<task_pqueue, filters_count, running_tasks, task_counter>>'
              /= <<task_pqueue, filters_count, running_tasks, task_counter>>
            => CoordinatorStep
       /\ WorkerStep =>
              /\ UNCHANGED <<pc, sent, send_failed, status_log, popped, limits>>
              /\ \/ chan' = chan
                 \/ /\ Len(chan') = Len(chan) + 1
                    /\ chan' = Append(chan, chan'[Len(chan')])
                    /\ chan'[Len(chan')].kind = "Monitor"]_vars

\* A worker has ended and posted its completion; the coordinator has not
\* handled it yet, so the record and the counts of the task are still held.
C26_Witness ==
    \E tid \in DOMAIN running_tasks :
        /\ threads[tid].state /= "running"
        /\ threads[tid].posted = 1
        /\ InFlight(tid)
        /\ filters_count /= DefaultCounts

C28_ConfigParse ==
    (ConfigParsed /\ \A i \in 1..Len(call.written) : WellFormed(call.written[i]))
        => /\ ret[1] = Ok(ExpectedLimits(call.written))
           /\ limits = ExpectedLimits(call.written)

\* A file with a line for nop and a line whose first word is no filter name
\* has been parsed, and nop has the count written.
C28_Witness ==
    /\ ConfigParsed
    /\ ret[1].tag = "Ok"
    /\ \E i, j \in 1..Len(call.written) :
          /\ call.written[i][1] = Spelling["nop"]
          /\ \A f \in Filters : call.written[j][1] /= Spelling[f]
    /\ limits["nop"] > 0

\* C29: for a file with a line of fewer than two words, or with a second
\* word that is not a non-negative integer, parse returns the error of the
\* first such line and no limits, and the server exits before any request is
\* read from the socket.
C29_ConfigParseFails ==
    (ConfigParsed /\ \E i \in 1..Len(call.written) : ~WellFormed(call.written[i]))
        => /\ ret[1].tag = "Err"
           /\ ret[1].value.error = ExpectedConfigError(call.written)
           /\ limits = DefaultCounts
           /\ pc = "exited"
           /\ requests = <<>>
           /\ chan = <<>>

\* The server has exited on a second line whose count is no integer, after
\* a first line that was well-formed.
C29_Witness ==
    /\ ConfigParsed
    /\ pc = "exited"
    /\ Len(call.written) = 2
    /\ WellFormed(call.written[1])
    /\ ret[1].value.error = "FilterLimitParseError"

\* C30: when every filter word of a proc-file command line is one of the
\* seven names in some letter case, the request built carries the variants
\* named, in order; when some word is not, the client logs
\* InvalidFilterProvided with a FilterParseError, sends nothing to the server
\* and exits with 1.
C30_FilterFromStr ==
    [][(ClientBuildStep /\ FilterRequest(client.args)) =>
          LET words == SubSeq(client.args, 5, Len(client.args))
          IN  IF \A i \in 1..Len(words) : \E f \in Filters : NamesFilter(words[i], f)
              THEN /\ client'.error = <<>>
                   /\ client'.request /= <<>> =>
                         client'.request[1].task.transformations =
                             [i \in 1..Len(words) |->
                                 CHOOSE f \in Filters : NamesFilter(words[i], f)]
              ELSE /\ client'.request = <<>>
                   /\ client'.error /= <<>>
                   /\ client'.error[1].error = "InvalidFilterProvided"
                   /\ client'.error[1].of.error = "FilterParseError"
                   /\ client'.pc = "exited"
                   /\ client'.exit_code = 1]_vars

\* The client has exited with 1 on the filter word nopp, having sent
\* nothing.
C30_Witness ==
    /\ client.pc = "exited"
    /\ client.exit_code = 1
    /\ client.request = <<>>
    /\ client.error /= <<>>
    /\ client.error[1].error = "InvalidFilterProvided"
    /\ client.error[1].of.of = <<"n", "o", "p", "p">>

\* C31: ClientRequest::build reports the first defect of the command line in
\* the order no command, unknown command, no priority, priority that is no
\* non-negative integer, missing path, no filters, and then nothing is built;
\* a proc-file command line without defect gives the ProcFile request with
\* the client's pid, the priority, the two paths and the filters in order.
C31_FirstDefectReported ==
    [][ClientBuildStep =>
          LET args == client.args
              expected == ExpectedBuildError(args)
          IN  IF expected /= "none"
              THEN /\ client'.request = <<>>
                   /\ client'.error /= <<>>
                   /\ client'.error[1].error = expected
              ELSE (args[1] = ProcFileCommand /\ FilterWordsValid(args)) =>
                      /\ client'.error = <<>>
                      /\ client'.request /= <<>> =>
                            client'.request[1]
                                = ProcFileRequest(ExpectedTask(args, ClientPid))]_vars

\* The client has stopped on a priority that is no integer, on a command
\* line that had no paths and no filters either.
C31_Witness ==
    /\ client.pc = "exited"
    /\ client.request = <<>>
    /\ client.error /= <<>>
    /\ client.error[1].error = "InvalidPriority"

C33_NoUnderflow ==
    [][/\ CompletionStep =>
              \A f \in Filters :
                  filters_count[f] >= Occurrences(CompletedTask.transformations, f)
       /\ \A f \in Filters : filters_count'[f] >= 0]_vars

\* The completion of a task with two encrypt filters has been handled while
\* another task is running: the counts went down by two and are not zero.
C33_Witness ==
    /\ pc = "drain"
    /\ filters_count["encrypt"] >= 1
    /\ \E tid \in 1..Len(threads) :
          /\ tid \notin DOMAIN running_tasks
          /\ threads[tid].posted = 1
          /\ ~InFlight(tid)
          /\ Len(threads[tid].task.transformations) = 2

\* C34: every completion event the coordinator takes off the channel names
\* a worker that is in the running-worker table at that moment, also when
\* the worker posted it before process_task had inserted its record; the
\* coordinator never stops on an unknown worker.
C34_CompletionFindsWorker ==
    [][/\ (pc = "recv" /\ chan /= <<>> /\ Head(chan).kind = "Monitor"
            /\ chan' = Tail(chan))
             => Head(chan).thread \in DOMAIN running_tasks
       /\ pc' /= "panicked"]_vars

\* The worker just spawned has ended and posted its completion event while
\* process_task has not inserted its record yet.
C34_Witness ==
    /\ pc = "insert"
    /\ Len(threads) \notin DOMAIN running_tasks
    /\ threads[Len(threads)].posted = 1
    /\ InFlight(Len(threads))

\* C35: a task only moves forward. Of the requests made for a task, each is
\* in the queue or was taken off it, never both, so no more are admitted
\* than were accepted; a task requested once is never queued and running at
\* the same time, and once its completion was handled it is neither queued
\* nor running; a task enters the queue only when its request is handled,
\* and a record enters the table only for a thread spawned in that step.
C35_ForwardOnly ==
    /\ [](/\ Range(task_pqueue) \cup Range(popped) \subseteq Range(requests)
          /\ \A task \in Range(requests) :
                /\ Count(task_pqueue, task) + Count(popped, task) <= Count(requests, task)
                /\ Cardinality(Spawned(task)) <= Count(popped, task)
                /\ Running(task) \subseteq Spawned(task)
                /\ RequestedOnce(task) =>
                      /\ ~(Count(task_pqueue, task) > 0 /\ Running(task) /= {})
                      /\ (Spawned(task) /= {} /\ Running(task) = {}) =>
                            Count(task_pqueue, task) = 0)
    /\ [][/\ Len(task_pqueue') > Len(task_pqueue) => ProcFileStep
          /\ \A i \in 1..Len(task_pqueue') :
                Count(task_pqueue, task_pqueue'[i]) = 0 =>
                    ProcFileStep /\ Head(chan).task = task_pqueue'[i]
          /\ \A tid \in DOMAIN running_tasks' \ DOMAIN running_tasks :
                tid = Len(threads') /\ Len(threads') = Len(threads) + 1
          /\ Len(popped') >= Len(popped)
          /\ Len(threads') >= Len(threads)]_vars

\* The completion of a task requested once has been handled: it is out of
\* the table and not in the queue, while another task is running and a third
\* request waits in the queue.
C35_Witness ==
    /\ task_pqueue /= <<>>
    /\ running_tasks /= <<>>
    /\ \E tid \in 1..Len(threads) :
          /\ RequestedOnce(threads[tid].task)
          /\ tid \notin DOMAIN running_tasks
          /\ threads[tid].posted = 1
          /\ ~InFlight(tid)
          /\ Count(task_pqueue, threads[tid].task) = 0

\* C36: whenever the coordinator waits for its next event, every task whose
\* ProcFile request was handled is in the pending queue or in the
\* running-worker table, or a terminal message was emitted for it.
C36_NoTaskLost ==
    pc = "recv" =>
        \A task \in Range(requests) :
            (RequestedOnce(task) /\ Handled(task)) =>
                \/ Count(task_pqueue, task) > 0
                \/ Running(task) /= {}
                \/ TerminalEmitted(task)

\* C37: a step in which process_task fails to spawn the worker leaves the
\* running counts, the running-worker table and the task counter as they
\* were before the call.
C37_SpawnFailureRollsBack ==
    [][SpawnFailedStep =>
          UNCHANGED <<filters_count, running_tasks, task_counter>>]_vars

\* C38: a step that delivers a message about a task (Pending, Processing or
\* a terminal message) delivers it to the socket of the client pid of that
\* task and to no other client.
C38_AddressedToOwnClient ==
    [][sent' /= sent =>
          \E message \in {Pending, Processing, ConcludedUnit} \cup TerminalMessages :
              Delivers(Addressee, message)]_vars

\* C39: the step that handles a ProcFile request makes the pending queue
\* longer by exactly one entry, also when an equal task is already queued.
C39_OneEntryPerRequest ==
    [][ProcFileStep => Len(task_pqueue') = Len(task_pqueue) + 1]_vars

\* C40: for every filter f, the displayed string is the name of f in lower
\* case, parsing it gives f again, and the program the worker runs for f is
\* the file of that name in the directory of the filter programs.
C40_FilterNamesRoundTrip ==
    (call.fn = "transfs_execs" /\ ret /= NotReturned) =>
        \A i \in 1..Len(call.transformations) :
            LET f == call.transformations[i]
                name == ret[1].displayed[i]
            IN  /\ ret[1].parsed[i] = Ok(f)
                /\ IsLowercaseWord(name)
                /\ NamesFilter(name, f)
                /\ FileName(ret[1].execs[i]) = name
                /\ Directory(ret[1].execs[i]) = Bare(call.transformations_path)

\* A task of two different filters has been displayed, located and parsed.
C40_Witness ==
    /\ call.fn = "transfs_execs"
    /\ ret /= NotReturned
    /\ Len(call.transformations) = 2
    /\ call.transformations[1] = "bdecompress"
    /\ call.transformations[2] = "decrypt"
    /\ ret[1].parsed[2] = Ok("decrypt")

====
